---- MODULE Spec2Model ----
(***************************************************************************)
(* Assembly statistics engine of assembly-clustering-validation:           *)
(* parse_fasta_stats of scripts/analysis/assess_all_conditions.py (and its *)
(* copies in assess_final_assemblies.py and assess_quality.py).            *)
(*                                                                         *)
(* One invocation of parse_fasta_stats is modelled as a state machine that *)
(* checks the path, opens the file, consumes it line by line, flushes the  *)
(* last record at end of file and returns either None or the statistics    *)
(* record.  A line is a run-length encoded string.  The float              *)
(* target of calculate_nx (total_length * 0.9) is computed as IEEE-754     *)
(* binary64 multiplication, on 8-bit limbs.                                *)
(***************************************************************************)
EXTENDS Integers, Sequences, FiniteSets, TLC

VARIABLES script, exists, lines, pc, pos, contigs, current_seq, opens, ioError,
          result, path, peer, batch, bi, all_stats, warned, nxOut,
          create_random_groups, create_grouping_strategy, get_assembly_stats,
          generate_comprehensive_report, process_strategy,
          generate_staged_assembly_commands

vars == <<script, exists, lines, pc, pos, contigs, current_seq, opens, ioError,
          result, path, peer, batch, bi, all_stats, warned, nxOut,
          create_random_groups, create_grouping_strategy,
          get_assembly_stats,
          generate_comprehensive_report,
          process_strategy,
          generate_staged_assembly_commands>>

\* The other programs of the repository, each variable the frame of the
\* function it is named after: its arguments, its locals and where it is.
tools == <<create_random_groups, create_grouping_strategy,
          get_assembly_stats,
          generate_comprehensive_report,
          process_strategy,
          generate_staged_assembly_commands>>

\* A function that has not been called.
NotCalled == [pc |-> "not called"]

\* Every function but the one named has not been called.
OthersIdle(running) ==
    /\ running # "create_random_groups" => create_random_groups = NotCalled
    /\ running # "create_grouping_strategy" => create_grouping_strategy = NotCalled
    /\ running # "get_assembly_stats" => get_assembly_stats = NotCalled
    /\ running # "generate_comprehensive_report" => generate_comprehensive_report = NotCalled
    /\ running # "process_strategy" => process_strategy = NotCalled
    /\ running # "generate_staged_assembly_commands" => generate_staged_assembly_commands = NotCalled

ToolsIdle == OthersIdle("parse_fasta_stats")

otherThanRandomGroups == <<create_grouping_strategy, get_assembly_stats, generate_comprehensive_report, process_strategy, generate_staged_assembly_commands>>
otherThanStrategy == <<create_random_groups, get_assembly_stats, generate_comprehensive_report, process_strategy, generate_staged_assembly_commands>>
otherThanQuality == <<create_random_groups, create_grouping_strategy, generate_comprehensive_report, process_strategy, generate_staged_assembly_commands>>
otherThanReport == <<create_random_groups, create_grouping_strategy, get_assembly_stats, process_strategy, generate_staged_assembly_commands>>
otherThanOptimal == <<create_random_groups, create_grouping_strategy, get_assembly_stats, generate_comprehensive_report, generate_staged_assembly_commands>>
otherThanStaged == <<create_random_groups, create_grouping_strategy, get_assembly_stats, generate_comprehensive_report, process_strategy>>

\* What lies outside the locals of the running invocation: its argument, a
\* second invocation in progress, the batch of the calling loop with its
\* table and warnings, and the results of separate calculate_nx calls.
outer == <<path, peer, batch, bi, all_stats, warned, nxOut, tools>>

(***************************************************************************)
(* Bounds of the model.                                                    *)
(***************************************************************************)
MaxLines == 3
MaxLineLen == 2
MaxContigs == 4
MaxContigLen == 6

(***************************************************************************)
(* Inputs: the lines of a file.                                            *)
(***************************************************************************)
\* A string is a sequence of runs <<c, n>>: the character c repeated n >= 1
\* times.  Chars(t) is the string of the characters t[1], t[2], ...
RECURSIVE Chars(_)
Chars(t) == IF t = <<>> THEN <<>> ELSE << <<Head(t), 1>> >> \o Chars(Tail(t))

\* Op applied to the value of v: v is evaluated once and its value is what
\* Op's parameter names, as a Python assignment names the value of its
\* right-hand side.
Bind(v, Op(_)) == CHOOSE r \in {Op(x) : x \in {v}} : TRUE

RECURSIVE StrLen(_)
StrLen(s) == IF s = <<>> THEN 0 ELSE Head(s)[2] + StrLen(Tail(s))

Alphabet == {" ", ">", "A"}

RECURSIVE SeqsUpTo(_, _)
SeqsUpTo(S, n) ==
    IF n = 0 THEN {<<>>}
    ELSE LET shorter == SeqsUpTo(S, n - 1)
         IN  shorter \cup {Append(s, x) : s \in shorter, x \in S}

ExampleFiles ==
    { << Chars(<<">", "s", "e", "q", "1">>), Chars(<<"A", "C", "G", "T", "A", "C", "G", "T">>) >>,
      << Chars(<<">", "s", "e", "q", "1">>), Chars(<<">", "s", "e", "q", "2">>),
         Chars(<<"A", "C", "G", "T">>) >>,
      << Chars(<<">", "s", "e", "q", "1">>), Chars(<<"\t", "A", "C", " ", "G", "T", "\t">>),
         Chars(<<>>), Chars(<<"A", "C", "G", "T">>), Chars(<<">", "s", "e", "q", "2">>) >>,
      << Chars(<<"A", "C", "G", "T">>) >>,
      << Chars(<<"\\x0b", ">", "c">>), Chars(<<"\\x0b", "A", "\\xa0", "A", "\\x1c">>) >> }

Lines == {Chars(t) : t \in SeqsUpTo(Alphabet, MaxLineLen)}

SmallFiles == SeqsUpTo(Lines, MaxLines)

Repeat(c, n) == IF n = 0 THEN <<>> ELSE << <<c, n>> >>

\* The well-formed FASTA file whose records have the lengths cs, one
\* sequence line per record.
RECURSIVE FastaOf(_)
FastaOf(cs) ==
    IF cs = <<>> THEN <<>>
    ELSE << Chars(<<">", "c">>), Repeat("A", Head(cs)) >> \o FastaOf(Tail(cs))

ContigLists == SeqsUpTo(1..MaxContigLen, MaxContigs)

\* The orders in which the records of lengths cs can stand in a file.
Orders(cs) ==
    LET n == Len(cs)
    IN  {[i \in 1..n |-> cs[p[i]]] :
           p \in {q \in [1..n -> 1..n] : \A i, j \in 1..n : q[i] = q[j] => i = j}}

\* Contig lists at the scale of the size thresholds (500 .. 100000), with
\* fewer than, exactly and more than 10 contigs.
ExampleContigLists ==
    Orders(<<1000, 800, 600, 400, 200>>) \cup
    { <<500, 300, 200>>,
      <<100, 90, 80, 70, 60>>,
      <<5000, 499, 100000, 1000, 50000, 500, 10000, 999, 100001>>,
      <<7, 1, 10, 4, 2, 9, 3, 8, 6, 5>>,
      <<3, 1, 4, 1, 5, 9, 2, 6, 5, 3, 5>>,
      <<600, 500, 1200, 700, 1000, 900, 1100, 800, 400, 5000, 300, 10000>> }

Files ==
    SmallFiles \cup ExampleFiles
        \cup {FastaOf(cs) : cs \in ContigLists \cup ExampleContigLists}

(***************************************************************************)
(* str.strip() and str.startswith(">").                                    *)
(***************************************************************************)
\* The characters str.isspace() holds of; a character without a TLA+ escape
\* is written as its Python escape.
Whitespace ==
    {" ", "\t", "\n", "\r", "\f", "\\x0b", "\\x1c", "\\x1d", "\\x1e", "\\x1f",
     "\\x85", "\\xa0", "\\u1680", "\\u2000", "\\u2001", "\\u2002", "\\u2003",
     "\\u2004", "\\u2005", "\\u2006", "\\u2007", "\\u2008", "\\u2009", "\\u200a",
     "\\u2028", "\\u2029", "\\u202f", "\\u205f", "\\u3000"}

RECURSIVE LStrip(_)
LStrip(s) ==
    IF s = <<>> THEN <<>>
    ELSE IF Head(s)[1] \in Whitespace THEN LStrip(Tail(s)) ELSE s

RECURSIVE RStrip(_)
RStrip(s) ==
    IF s = <<>> THEN <<>>
    ELSE IF s[Len(s)][1] \in Whitespace THEN RStrip(SubSeq(s, 1, Len(s) - 1)) ELSE s

Strip(s) == RStrip(LStrip(s))

StartsWithGt(s) == s # <<>> /\ Head(s)[1] = ">"

(***************************************************************************)
(* IEEE-754 binary64: the float literals 0.5, 0.75 and 0.9 are             *)
(* mantissa * 2^-53 with a 53-bit mantissa, written here as little-endian  *)
(* limbs in base 256 (0.9 is 0x1.ccccccccccccdp-1).                        *)
(***************************************************************************)
Frac50 == <<0, 0, 0, 0, 0, 0, 16>>
Frac75 == <<0, 0, 0, 0, 0, 0, 24>>
Frac90 == <<205, 204, 204, 204, 204, 204, 28>>

\* The exact product mantissa * t, as limbs.
RECURSIVE MulLimbs(_, _, _, _)
MulLimbs(m, t, i, carry) ==
    IF i > Len(m)
    THEN IF carry = 0 THEN <<>>
         ELSE <<carry % 256>> \o MulLimbs(m, t, i, carry \div 256)
    ELSE LET p == m[i] * t + carry
         IN  <<p % 256>> \o MulLimbs(m, t, i + 1, p \div 256)

Bit(p, i) ==
    IF i < 0 \/ (i \div 8) + 1 > Len(p) THEN 0
    ELSE (p[(i \div 8) + 1] \div (2 ^ (i % 8))) % 2

\* The number of bits of p up to and including bit i.
RECURSIVE BitLenFrom(_, _)
BitLenFrom(p, i) ==
    IF i < 0 THEN 0 ELSE IF Bit(p, i) = 1 THEN i + 1 ELSE BitLenFrom(p, i - 1)

BitLen(p) == BitLenFrom(p, 8 * Len(p) - 1)

RECURSIVE BitsValue(_, _, _)
BitsValue(p, lo, hi) ==
    IF hi < lo THEN 0 ELSE Bit(p, lo) + 2 * BitsValue(p, lo + 1, hi)

\* The least integer that is >= the float total * fraction: the product is
\* rounded to 53 significant bits, ties to even, as the multiplication of
\* an int by a float is in Python.
FloatTargetCeil(total, fraction) ==
    LET Ceil(p) ==
            LET Rounded(s) ==
                    LET guard   == Bit(p, s - 1)
                        sticky  == \E i \in 0..(s - 2) : Bit(p, i) = 1
                        roundUp == guard = 1 /\ (sticky \/ Bit(p, s) = 1)
                        intPart == BitsValue(p, 53, 8 * Len(p) - 1)
                        anyOne  == \E i \in s..52 : Bit(p, i) = 1
                    IN  IF roundUp
                        THEN intPart + 1
                        ELSE IF anyOne THEN intPart + 1 ELSE intPart
            IN  Bind(BitLen(p) - 53, Rounded)
    IN  IF total = 0 THEN 0
        ELSE Bind(MulLimbs(fraction, total, 1, 0), Ceil)

(***************************************************************************)
(* list.sort(reverse=True), sum, max and min.                              *)
(***************************************************************************)
\* Mutant: equal lengths are kept once (a sort over the set of lengths).
RECURSIVE InsertDescDedup(_, _)
InsertDescDedup(x, s) ==
    IF s = <<>> THEN <<x>>
    ELSE IF x = Head(s) THEN s
         ELSE IF x > Head(s) THEN <<x>> \o s
              ELSE <<Head(s)>> \o InsertDescDedup(x, Tail(s))

RECURSIVE InsertDesc(_, _)
InsertDesc(x, s) ==
    IF s = <<>> THEN <<x>>
    ELSE IF x >= Head(s) THEN <<x>> \o s
         ELSE <<Head(s)>> \o InsertDesc(x, Tail(s))

\* Mutant: the sort is ascending (reverse=True forgotten).
RECURSIVE InsertAsc(_, _)
InsertAsc(x, s) ==
    IF s = <<>> THEN <<x>>
    ELSE IF x <= Head(s) THEN <<x>> \o s
         ELSE <<Head(s)>> \o InsertAsc(x, Tail(s))

RECURSIVE SortAsc(_)
SortAsc(s) == IF s = <<>> THEN <<>> ELSE InsertAsc(Head(s), SortAsc(Tail(s)))

RECURSIVE SortDesc(_)
SortDesc(s) == IF s = <<>> THEN <<>> ELSE InsertDesc(Head(s), SortDesc(Tail(s)))

RECURSIVE SumSeq(_)
SumSeq(s) == IF s = <<>> THEN 0 ELSE Head(s) + SumSeq(Tail(s))

RECURSIVE MaxSeq(_)
MaxSeq(s) ==
    IF Len(s) = 1 THEN s[1]
    ELSE LET m == MaxSeq(Tail(s)) IN IF m > Head(s) THEN m ELSE Head(s)

RECURSIVE MinSeq(_)
MinSeq(s) ==
    IF Len(s) = 1 THEN s[1]
    ELSE LET m == MinSeq(Tail(s)) IN IF m < Head(s) THEN m ELSE Head(s)

(***************************************************************************)
(* np.mean and np.median return binary64 values.  A positive float below   *)
(* 2^53 is written [int |-> its integer part, frac |-> the bits of its     *)
(* fractional part, most significant first, without trailing zeros].       *)
(***************************************************************************)
RECURSIVE IntBitLen(_)
IntBitLen(n) == IF n = 0 THEN 0 ELSE 1 + IntBitLen(n \div 2)

\* k further quotient bits of r / n (r < n) after the bits acc, and the
\* remainder left.
RECURSIVE DivBits(_, _, _, _)
DivBits(r, n, k, acc) ==
    IF k = 0 THEN [bits |-> acc, rem |-> r]
    ELSE IF 2 * r >= n
         THEN DivBits(2 * r - n, n, k - 1, Append(acc, 1))
         ELSE DivBits(2 * r, n, k - 1, Append(acc, 0))

\* The last index up to i where bits holds b, 0 when there is none.
RECURSIVE LastIndexOf(_, _, _)
LastIndexOf(bits, b, i) ==
    IF i = 0 THEN 0
    ELSE IF bits[i] = b THEN i ELSE LastIndexOf(bits, b, i - 1)

TrimZeros(bits) == SubSeq(bits, 1, LastIndexOf(bits, 1, Len(bits)))

\* bits + 1 in the last place; carry is 1 when every bit was 1.
IncBits(bits) ==
    LET Inc(z) ==
            [bits  |-> [i \in 1..Len(bits) |->
                           IF i < z THEN bits[i] ELSE IF i = z THEN 1 ELSE 0],
             carry |-> IF z = 0 THEN 1 ELSE 0]
    IN  Bind(LastIndexOf(bits, 0, Len(bits)), Inc)

\* The binary64 quotient a / n of two positive ints, a >= n: 53 significant
\* bits, round to nearest, ties to even.
FloatDiv(a, n) ==
    LET q     == a \div n
        nfrac == 53 - IntBitLen(q)
        Round(d) ==
            LET kept    == SubSeq(d.bits, 1, nfrac)
                guard   == d.bits[nfrac + 1]
                lsb     == IF nfrac = 0 THEN q % 2 ELSE kept[nfrac]
                roundUp == guard = 1 /\ (d.rem # 0 \/ lsb = 1)
                Up(up)  == [int |-> q + up.carry, frac |-> TrimZeros(up.bits)]
            IN  IF roundUp
                THEN Bind(IncBits(kept), Up)
                ELSE [int |-> q, frac |-> TrimZeros(kept)]
    IN  Bind(DivBits(a % n, n, nfrac + 1, <<>>), Round)

\* np.mean of a list of ints: the float sum (exact below 2^53) over the count.
MeanFloat(cs) == FloatDiv(SumSeq(cs), Len(cs))

\* Mutant: the middle index is taken one place too early.
MedianFloatOffByOne(cs) ==
    LET srt == SortDesc(cs)
        n   == Len(srt)
        h   == n \div 2
    IN  IF n % 2 = 1
        THEN [int |-> srt[IF h = 0 THEN 1 ELSE h], frac |-> <<>>]
        ELSE [int  |-> (srt[h] + srt[h + 1]) \div 2,
              frac |-> IF (srt[h] + srt[h + 1]) % 2 = 1 THEN <<1>> ELSE <<>>]

\* np.median: the middle element, or the mean of the two middle elements.
MedianFloat(cs) ==
    LET srt == SortDesc(cs)
        n   == Len(srt)
        h   == n \div 2
    IN  IF n % 2 = 1
        THEN [int |-> srt[h + 1], frac |-> <<>>]
        ELSE [int  |-> (srt[h] + srt[h + 1]) \div 2,
              frac |-> IF (srt[h] + srt[h + 1]) % 2 = 1 THEN <<1>> ELSE <<>>]

\* Mutant: the comparison with the threshold is reversed.
RECURSIVE CountLE(_, _)
CountLE(cs, threshold) ==
    IF cs = <<>> THEN 0
    ELSE (IF Head(cs) <= threshold THEN 1 ELSE 0) + CountLE(Tail(cs), threshold)

\* sum(1 for c in contigs if c >= threshold)
RECURSIVE CountGE(_, _)
CountGE(cs, threshold) ==
    IF cs = <<>> THEN 0
    ELSE (IF Head(cs) >= threshold THEN 1 ELSE 0) + CountGE(Tail(cs), threshold)

\* Mutant: the slice is taken from the ascending list.
LongestTenAscending(cs, total_length) ==
    IF Len(cs) >= 10 THEN SumSeq(SubSeq(SortAsc(cs), 1, 10)) ELSE total_length

\* sum(sorted(contigs, reverse=True)[:10]) if len(contigs) >= 10 else total_length
LongestTen(cs, total_length) ==
    IF Len(cs) >= 10 THEN SumSeq(SubSeq(SortDesc(cs), 1, 10)) ELSE total_length

(***************************************************************************)
(* calculate_nx: cumsum and length are ints and target is a float, so      *)
(* cumsum >= target holds exactly when cumsum >= ceil(target).             *)
(***************************************************************************)
\* Mutant: the walk stops only when the running sum exceeds the rounded-up
\* target.
RECURSIVE NxWalkStrict(_, _, _, _)
NxWalkStrict(cs, i, cumsum, targetCeil) ==
    IF i > Len(cs) THEN 0
    ELSE LET c == cumsum + cs[i]
         IN  IF c > targetCeil THEN cs[i] ELSE NxWalkStrict(cs, i + 1, c, targetCeil)

\* Mutant: when the list is exhausted the walk returns the last length.
RECURSIVE NxWalkLast(_, _, _, _)
NxWalkLast(cs, i, cumsum, targetCeil) ==
    IF i > Len(cs) THEN cs[Len(cs)]
    ELSE LET c == cumsum + cs[i]
         IN  IF c >= targetCeil THEN cs[i] ELSE NxWalkLast(cs, i + 1, c, targetCeil)

\* Mutant: the running sum is compared with the target before the length
\* is added to it.
RECURSIVE NxWalkBeforeAdd(_, _, _, _)
NxWalkBeforeAdd(cs, i, cumsum, targetCeil) ==
    IF i > Len(cs) THEN 0
    ELSE IF cumsum >= targetCeil THEN cs[i]
         ELSE NxWalkBeforeAdd(cs, i + 1, cumsum + cs[i], targetCeil)

\* Mutant: the walk leaves out the last, shortest contig.
RECURSIVE NxWalkDropLast(_, _, _, _)
NxWalkDropLast(cs, i, cumsum, targetCeil) ==
    IF i >= Len(cs) THEN 0
    ELSE LET c == cumsum + cs[i]
         IN  IF c >= targetCeil THEN cs[i] ELSE NxWalkDropLast(cs, i + 1, c, targetCeil)

RECURSIVE NxWalk(_, _, _, _)
NxWalk(cs, i, cumsum, targetCeil) ==
    IF i > Len(cs) THEN 0
    ELSE LET c == cumsum + cs[i]
         IN  IF c >= targetCeil THEN cs[i] ELSE NxWalk(cs, i + 1, c, targetCeil)

calculate_nx(cs, total_length, percentage) ==
    LET Walk(target) == NxWalk(cs, 1, 0, target)
    IN  Bind(FloatTargetCeil(total_length, percentage), Walk)

\* assess_quality.py: the N50 loop compares with total_length / 2, a true
\* division that is exact for every total below 2^53.
\* Mutant: the N50 loop has no break, the last length at which the running
\* sum has reached half of the total is kept.
RECURSIVE QualityN50WalkNoBreak(_, _, _, _)
QualityN50WalkNoBreak(cs, i, cumsum, total_length) ==
    IF i > Len(cs) THEN 0
    ELSE LET c == cumsum + cs[i]
         IN  IF i = Len(cs)
             THEN (IF 2 * c >= total_length THEN cs[i] ELSE 0)
             ELSE QualityN50WalkNoBreak(cs, i + 1, c, total_length)

RECURSIVE QualityN50Walk(_, _, _, _)
QualityN50Walk(cs, i, cumsum, total_length) ==
    IF i > Len(cs) THEN 0
    ELSE LET c == cumsum + cs[i]
         IN  IF 2 * c >= total_length THEN cs[i]
             ELSE QualityN50Walk(cs, i + 1, c, total_length)

quality_n50(cs, total_length) == QualityN50Walk(cs, 1, 0, total_length)

quality_n90(cs, total_length) ==
    LET Walk(target) == NxWalk(cs, 1, 0, target)
    IN  Bind(FloatTargetCeil(total_length, Frac90), Walk)

(***************************************************************************)
(* The value returned by parse_fasta_stats.                                *)
(***************************************************************************)
Scripts == {"assess_all_conditions", "assess_final_assemblies", "assess_quality"}

Pending == [kind |-> "pending"]
None == [kind |-> "None"]

\* The keys of the returned dict, which differ between the three copies.
StatsFields(sc) ==
    {"kind", "total_length", "n_contigs", "n50", "n90", "max_contig",
     "min_contig", "mean_contig", "median_contig", "contigs_1kb+",
     "contigs_10kb+", "assembly_file"}
    \cup (IF sc = "assess_quality" THEN {}
          ELSE {"n75", "contigs_5kb+", "longest_10_sum"})
    \cup (IF sc = "assess_all_conditions" THEN {"contigs_500+"} ELSE {})
    \cup (IF sc = "assess_final_assemblies"
          THEN {"contigs_50kb+", "contigs_100kb+"} ELSE {})

StatsRecord(sc, parsed, fasta_file) ==
    LET Stats(sorted) ==
            LET Fields(total_length) ==
                    [f \in StatsFields(sc) |->
                           CASE f = "kind"           -> "stats"
                             [] f = "total_length"   -> total_length
                             [] f = "n_contigs"      -> Len(sorted)
                             [] f = "max_contig"     -> MaxSeq(sorted)
                             [] f = "min_contig"     -> MinSeq(sorted)
                             [] f = "mean_contig"    -> MeanFloat(sorted)
                             [] f = "median_contig"  -> MedianFloat(sorted)
                             [] f = "n50"            ->
                                    IF sc = "assess_quality"
                                    THEN quality_n50(sorted, total_length)
                                    ELSE calculate_nx(sorted, total_length, Frac50)
                             [] f = "n75"            -> calculate_nx(sorted, total_length, Frac75)
                             [] f = "n90"            ->
                                    IF sc = "assess_quality"
                                    THEN quality_n90(sorted, total_length)
                                    ELSE calculate_nx(sorted, total_length, Frac90)
                             [] f = "contigs_500+"   -> CountGE(sorted, 500)
                             [] f = "contigs_1kb+"   -> CountGE(sorted, 1000)
                             [] f = "contigs_5kb+"   -> CountGE(sorted, 5000)
                             [] f = "contigs_10kb+"  -> CountGE(sorted, 10000)
                             [] f = "contigs_50kb+"  -> CountGE(sorted, 50000)
                             [] f = "contigs_100kb+" -> CountGE(sorted, 100000)
                             [] f = "longest_10_sum" -> LongestTen(sorted, total_length)
                             [] f = "assembly_file"  -> fasta_file]
            IN  Bind(SumSeq(sorted), Fields)
    IN  Bind(SortDesc(parsed), Stats)

(***************************************************************************)
(* One invocation of parse_fasta_stats.                                    *)
(***************************************************************************)
\* The files of the runs with two invocations or a batch: two paths with
\* the same content, a file with other content, a file that holds a header
\* and no sequence, and a path that does not exist.
FileSystem ==
    { [path |-> "kmer/final.contigs.fa", exists |-> TRUE,
       lines |-> FastaOf(<<2, 5>>)],
      [path |-> "random/final.contigs.fa", exists |-> TRUE,
       lines |-> FastaOf(<<2, 5>>)],
      [path |-> "individual/final.contigs.fa", exists |-> TRUE,
       lines |-> FastaOf(<<3>>)],
      [path |-> "headers.fa", exists |-> TRUE,
       lines |-> << Chars(<<">", "c">>) >>],
      [path |-> "missing.fa", exists |-> FALSE, lines |-> <<>>] }

NoPeer == [pc |-> "none"]
NoNx == [f \in {} |-> 0]

\* The locals of an invocation that is entered.
Entered ==
    /\ pc = "start"
    /\ pos = 0
    /\ contigs = <<>>
    /\ current_seq = <<>>
    /\ opens = 0
    /\ ioError = FALSE
    /\ result = Pending

\* A single call of parse_fasta_stats on any file.
Init ==
    /\ script \in Scripts
    /\ path = "assembly.fa"
    /\ exists \in BOOLEAN
    /\ lines \in (IF exists THEN Files ELSE {<<>>})
    /\ Entered
    /\ peer = NoPeer
    /\ batch = <<>>
    /\ bi = 0
    /\ all_stats = <<>>
    /\ warned = <<>>
    /\ nxOut = NoNx
    /\ ToolsIdle

\* The locals of the running invocation, as saved when the other one runs.
Locals ==
    [script |-> script, path |-> path, exists |-> exists, lines |-> lines,
     pc |-> pc, pos |-> pos, contigs |-> contigs, current_seq |-> current_seq,
     opens |-> opens, ioError |-> ioError, result |-> result]

\* Two invocations of parse_fasta_stats in progress at the same time.
InitPeer ==
    /\ script \in Scripts
    /\ \E f \in FileSystem :
           /\ path = f.path
           /\ exists = f.exists
           /\ lines = f.lines
    /\ Entered
    /\ \E sc \in Scripts, f \in FileSystem :
           peer = [script |-> sc, path |-> f.path, exists |-> f.exists,
                   lines |-> f.lines, pc |-> "start", pos |-> 0,
                   contigs |-> <<>>, current_seq |-> <<>>, opens |-> 0,
                   ioError |-> FALSE, result |-> Pending]
    /\ batch = <<>>
    /\ bi = 0
    /\ all_stats = <<>>
    /\ warned = <<>>
    /\ nxOut = NoNx
    /\ ToolsIdle

\* Mutant: the existence check is missing, the file is opened in any case.
OpenUnchecked ==
    /\ pc = "start"
    /\ opens' = opens + 1
    /\ pc' = "reading"
    /\ UNCHANGED <<script, exists, lines, pos, contigs, current_seq, ioError, result>>
    /\ UNCHANGED outer

\* if not Path(fasta_file).exists(): return None; otherwise open(fasta_file).
Open ==
    /\ pc = "start"
    /\ IF exists
       THEN /\ opens' = opens + 1
            /\ pc' = "reading"
            /\ result' = result
       ELSE /\ opens' = opens
            /\ pc' = "done"
            /\ result' = None
    /\ UNCHANGED <<script, exists, lines, pos, contigs, current_seq, ioError>>
    /\ UNCHANGED outer

\* open() raises although the path exists (a directory, no permission, the
\* file removed meanwhile): except Exception returns None.
OpenError ==
    /\ pc = "start"
    /\ exists
    /\ opens' = opens + 1
    /\ ioError' = TRUE
    /\ result' = None
    /\ pc' = "done"
    /\ UNCHANGED <<script, exists, lines, pos, contigs, current_seq>>
    /\ UNCHANGED outer

\* Mutant: the record is appended at a header whether or not it is empty.
ReadLineUnguarded ==
    /\ pc = "reading"
    /\ pos < Len(lines)
    /\ LET line == Strip(lines[pos + 1])
       IN  IF StartsWithGt(line)
           THEN /\ contigs' = Append(contigs, StrLen(current_seq))
                /\ current_seq' = <<>>
           ELSE /\ contigs' = contigs
                /\ current_seq' = current_seq \o line
    /\ pos' = pos + 1
    /\ UNCHANGED <<script, exists, lines, pc, opens, ioError, result>>
    /\ UNCHANGED outer

\* Mutant: the sequence line is accumulated without being stripped.
ReadLineUnstripped ==
    /\ pc = "reading"
    /\ pos < Len(lines)
    /\ LET line == Strip(lines[pos + 1])
       IN  IF StartsWithGt(line)
           THEN /\ contigs' = IF current_seq # <<>>
                              THEN Append(contigs, StrLen(current_seq))
                              ELSE contigs
                /\ current_seq' = <<>>
           ELSE /\ contigs' = contigs
                /\ current_seq' = current_seq \o lines[pos + 1]
    /\ pos' = pos + 1
    /\ UNCHANGED <<script, exists, lines, pc, opens, ioError, result>>
    /\ UNCHANGED outer

\* One iteration of "for line in f".
ReadLine ==
    /\ pc = "reading"
    /\ pos < Len(lines)
    /\ LET line == Strip(lines[pos + 1])
       IN  IF StartsWithGt(line)
           THEN /\ contigs' = IF current_seq # <<>>
                              THEN Append(contigs, StrLen(current_seq))
                              ELSE contigs
                /\ current_seq' = <<>>
           ELSE /\ contigs' = contigs
                /\ current_seq' = current_seq \o line
    /\ pos' = pos + 1
    /\ UNCHANGED <<script, exists, lines, pc, opens, ioError, result>>
    /\ UNCHANGED outer

\* Mutant: the handler swallows the error and the function goes on with the
\* records read so far.
ReadErrorPartial ==
    /\ pc = "reading"
    /\ ioError' = TRUE
    /\ pc' = "parsed"
    /\ UNCHANGED <<script, exists, lines, pos, contigs, current_seq, opens, result>>
    /\ UNCHANGED outer

\* Reading the next line raises: except Exception returns None.
ReadError ==
    /\ pc = "reading"
    /\ ioError' = TRUE
    /\ result' = None
    /\ pc' = "done"
    /\ UNCHANGED <<script, exists, lines, pos, contigs, current_seq, opens>>
    /\ UNCHANGED outer

\* Mutant: the flush after the loop is missing.
EndOfFileNoFlush ==
    /\ pc = "reading"
    /\ pos = Len(lines)
    /\ pc' = "parsed"
    /\ UNCHANGED <<script, exists, lines, pos, contigs, current_seq, opens, ioError,
                   result>>
    /\ UNCHANGED outer

\* The loop ends: the last record is flushed.
EndOfFile ==
    /\ pc = "reading"
    /\ pos = Len(lines)
    /\ contigs' = IF current_seq # <<>>
                  THEN Append(contigs, StrLen(current_seq))
                  ELSE contigs
    /\ pc' = "parsed"
    /\ UNCHANGED <<script, exists, lines, pos, current_seq, opens, ioError, result>>
    /\ UNCHANGED outer

\* Mutant: an empty contig list falls through to zero-valued aggregates.
ReturnZeros ==
    /\ pc = "parsed"
    /\ result' = IF contigs = <<>>
                 THEN [f \in StatsFields(script) |->
                          IF f = "kind" THEN "stats"
                          ELSE IF f = "assembly_file" THEN path ELSE 0]
                 ELSE StatsRecord(script, contigs, path)
    /\ contigs' = SortDesc(contigs)
    /\ pc' = "done"
    /\ UNCHANGED <<script, exists, lines, pos, current_seq, opens, ioError>>
    /\ UNCHANGED outer

\* Mutant: the record holds the file name without its directories.
ReturnBasename ==
    /\ pc = "parsed"
    /\ result' = IF contigs = <<>> THEN None
                 ELSE StatsRecord(script, contigs,
                                  IF path \in {"kmer/final.contigs.fa",
                                               "random/final.contigs.fa"}
                                  THEN "final.contigs.fa" ELSE path)
    /\ contigs' = SortDesc(contigs)
    /\ pc' = "done"
    /\ UNCHANGED <<script, exists, lines, pos, current_seq, opens, ioError>>
    /\ UNCHANGED outer

\* if not contigs: return None; otherwise contigs.sort(reverse=True) and the
\* statistics record.
Return ==
    /\ pc = "parsed"
    /\ result' = IF contigs = <<>> THEN None ELSE StatsRecord(script, contigs, path)
    /\ contigs' = SortDesc(contigs)
    /\ pc' = "done"
    /\ UNCHANGED <<script, exists, lines, pos, current_seq, opens, ioError>>
    /\ UNCHANGED outer

\* Mutant: contigs is one list shared by the invocations (a module-level
\* list) and is not part of what is private to each.
SwitchSharedContigs ==
    /\ peer # NoPeer
    /\ peer.pc # "done"
    /\ script' = peer.script
    /\ path' = peer.path
    /\ exists' = peer.exists
    /\ lines' = peer.lines
    /\ pc' = peer.pc
    /\ pos' = peer.pos
    /\ contigs' = contigs
    /\ current_seq' = peer.current_seq
    /\ opens' = peer.opens
    /\ ioError' = peer.ioError
    /\ result' = peer.result
    /\ peer' = Locals
    /\ UNCHANGED <<batch, bi, all_stats, warned, nxOut>>
    /\ UNCHANGED tools

\* The other invocation runs next.  Everything parse_fasta_stats assigns is
\* a local of the call (contigs = [], current_seq = "", the loop variable,
\* the statistics), so each invocation goes on with its own values.
Switch ==
    /\ peer # NoPeer
    /\ peer.pc # "done"
    /\ script' = peer.script
    /\ path' = peer.path
    /\ exists' = peer.exists
    /\ lines' = peer.lines
    /\ pc' = peer.pc
    /\ pos' = peer.pos
    /\ contigs' = peer.contigs
    /\ current_seq' = peer.current_seq
    /\ opens' = peer.opens
    /\ ioError' = peer.ioError
    /\ result' = peer.result
    /\ peer' = Locals
    /\ UNCHANGED <<batch, bi, all_stats, warned, nxOut>>
    /\ UNCHANGED tools

Next == Open \/ OpenError \/ ReadLine \/ ReadError \/ EndOfFile \/ Return

Spec == Init /\ [][Next]_vars

\* Two invocations in progress: the running one takes a step of its own, or
\* the other one runs next.
PeerNext ==
    Open \/ OpenError \/ ReadLine \/ ReadError \/ EndOfFile \/ Return \/ Switch

PeerSpec == InitPeer /\ [][PeerNext]_vars

(***************************************************************************)
(* The batch functions get_final_assembly_stats,                           *)
(* get_assembly_stats_by_condition and get_assembly_stats: a loop over a   *)
(* list of files that calls parse_fasta_stats on each, appends the         *)
(* returned dict to all_stats when it is truthy and prints a warning       *)
(* otherwise.  The keys the caller adds to the dict (condition, group      *)
(* name) are left out of the rows.  warned holds the files of the          *)
(* warnings printed.                                                       *)
(***************************************************************************)
MaxBatch == 3

\* The lists the loops go through.  get_final_assembly_stats has a fixed
\* list of names and get_assembly_stats_by_condition the result of one glob:
\* no path twice.  get_assembly_stats extends found_files with the results
\* of three overlapping globs, so a path can be in its list several times.
Batches(sc) ==
    {b \in SeqsUpTo(FileSystem, MaxBatch) \ {<<>>} :
        sc = "assess_quality"
            \/ \A i, j \in 1..Len(b) : b[i].path = b[j].path => i = j}

\* The loop is entered: parse_fasta_stats is called on the first file.
InitBatch ==
    /\ script \in Scripts
    /\ batch \in Batches(script)
    /\ bi = 1
    /\ path = batch[1].path
    /\ exists = batch[1].exists
    /\ lines = batch[1].lines
    /\ Entered
    /\ peer = NoPeer
    /\ all_stats = <<>>
    /\ warned = <<>>
    /\ nxOut = NoNx
    /\ ToolsIdle

\* Mutant: the loop is left at the first file without statistics.
NextFileAbort ==
    /\ batch # <<>>
    /\ pc = "done"
    /\ IF result.kind = "stats"
       THEN /\ all_stats' = Append(all_stats, result)
            /\ warned' = warned
            /\ IF bi < Len(batch)
               THEN /\ bi' = bi + 1
                    /\ path' = batch[bi + 1].path
                    /\ exists' = batch[bi + 1].exists
                    /\ lines' = batch[bi + 1].lines
                    /\ pc' = "start"
                    /\ pos' = 0
                    /\ contigs' = <<>>
                    /\ current_seq' = <<>>
                    /\ opens' = 0
                    /\ ioError' = FALSE
                    /\ result' = Pending
               ELSE /\ pc' = "finished"
                    /\ UNCHANGED <<bi, path, exists, lines, pos, contigs,
                                   current_seq, opens, ioError, result>>
       ELSE /\ all_stats' = all_stats
            /\ warned' = Append(warned, path)
            /\ pc' = "finished"
            /\ UNCHANGED <<bi, path, exists, lines, pos, contigs,
                           current_seq, opens, ioError, result>>
    /\ UNCHANGED <<script, peer, batch, nxOut>>
    /\ UNCHANGED tools

\* Mutant: contigs is created once, before the loop, and every call of
\* parse_fasta_stats goes on appending to it.
NextFileNoReset ==
    /\ batch # <<>>
    /\ pc = "done"
    /\ IF result.kind = "stats"
       THEN /\ all_stats' = Append(all_stats, result)
            /\ warned' = warned
       ELSE /\ all_stats' = all_stats
            /\ warned' = Append(warned, path)
    /\ IF bi < Len(batch)
       THEN /\ bi' = bi + 1
            /\ path' = batch[bi + 1].path
            /\ exists' = batch[bi + 1].exists
            /\ lines' = batch[bi + 1].lines
            /\ pc' = "start"
            /\ pos' = 0
            /\ contigs' = contigs
            /\ current_seq' = <<>>
            /\ opens' = 0
            /\ ioError' = FALSE
            /\ result' = Pending
       ELSE /\ pc' = "finished"
            /\ UNCHANGED <<bi, path, exists, lines, pos, contigs, current_seq,
                           opens, ioError, result>>
    /\ UNCHANGED <<script, peer, batch, nxOut>>
    /\ UNCHANGED tools

\* The rest of the loop body after parse_fasta_stats has returned, and the
\* loop header: "if stats_dict: all_stats.append(stats_dict) else: print(
\* Warning)", then the call on the next file, whose locals are new, or the
\* end of the loop.
NextFile ==
    /\ batch # <<>>
    /\ pc = "done"
    /\ IF result.kind = "stats"
       THEN /\ all_stats' = Append(all_stats, result)
            /\ warned' = warned
       ELSE /\ all_stats' = all_stats
            /\ warned' = Append(warned, path)
    /\ IF bi < Len(batch)
       THEN /\ bi' = bi + 1
            /\ path' = batch[bi + 1].path
            /\ exists' = batch[bi + 1].exists
            /\ lines' = batch[bi + 1].lines
            /\ pc' = "start"
            /\ pos' = 0
            /\ contigs' = <<>>
            /\ current_seq' = <<>>
            /\ opens' = 0
            /\ ioError' = FALSE
            /\ result' = Pending
       ELSE /\ pc' = "finished"
            /\ UNCHANGED <<bi, path, exists, lines, pos, contigs, current_seq,
                           opens, ioError, result>>
    /\ UNCHANGED <<script, peer, batch, nxOut>>
    /\ UNCHANGED tools

BatchNext ==
    Open \/ OpenError \/ ReadLine \/ ReadError \/ EndOfFile \/ Return \/ NextFile

BatchSpec == InitBatch /\ [][BatchNext]_vars

\* The batch is one sequential program: it goes on as long as it has a
\* step to take.
BatchLive == BatchSpec /\ WF_vars(BatchNext)

(***************************************************************************)
(* The three copies of parse_fasta_stats called one after the other on the *)
(* same file, each call with locals of its own; the value each one returns *)
(* is kept.  No read fails in these runs.                                  *)
(***************************************************************************)
CopyOrder == <<"assess_all_conditions", "assess_final_assemblies", "assess_quality">>

InitCopies ==
    /\ script = CopyOrder[1]
    /\ path = "assembly.fa"
    /\ exists \in BOOLEAN
    /\ lines \in (IF exists THEN Files ELSE {<<>>})
    /\ Entered
    /\ peer = NoPeer
    /\ batch = <<>>
    /\ bi = 1
    /\ all_stats = <<>>
    /\ warned = <<>>
    /\ nxOut = NoNx
    /\ ToolsIdle

\* The call has returned: its value is kept and the next copy is called on
\* the same file.
NextCopy ==
    /\ pc = "done"
    /\ bi <= Len(CopyOrder)
    /\ all_stats' = Append(all_stats, result)
    /\ bi' = bi + 1
    /\ IF bi < Len(CopyOrder)
       THEN /\ script' = CopyOrder[bi + 1]
            /\ pc' = "start"
            /\ pos' = 0
            /\ contigs' = <<>>
            /\ current_seq' = <<>>
            /\ opens' = 0
            /\ ioError' = FALSE
            /\ result' = Pending
       ELSE /\ pc' = "compared"
            /\ UNCHANGED <<script, pos, contigs, current_seq, opens, ioError, result>>
    /\ UNCHANGED <<path, exists, lines, peer, batch, warned, nxOut>>
    /\ UNCHANGED tools

CopiesNext == Open \/ ReadLine \/ EndOfFile \/ Return \/ NextCopy

CopiesSpec == InitCopies /\ [][CopiesNext]_vars

(***************************************************************************)
(* The statistics after the sort, one at a time.  calculate_nx is a        *)
(* function of the sorted list and a percentage, and the counts and        *)
(* longest_10 are expressions over the same list; here they are evaluated  *)
(* in any order, and calculate_nx also with percentages that               *)
(* parse_fasta_stats never passes.                                         *)
(***************************************************************************)
MaxNxContigs == 3
MaxCalls == 2

\* The percentage argument: the limbs of the binary64 value and the exact
\* fraction num / den it is written as.
Percentages ==
    { [name |-> "0.0",  limbs |-> <<0, 0, 0, 0, 0, 0, 0>>,  num |-> 0, den |-> 1],
      [name |-> "0.5",  limbs |-> Frac50,                   num |-> 1, den |-> 2],
      [name |-> "0.75", limbs |-> Frac75,                   num |-> 3, den |-> 4],
      [name |-> "0.9",  limbs |-> Frac90,                   num |-> 9, den |-> 10],
      [name |-> "1.0",  limbs |-> <<0, 0, 0, 0, 0, 0, 32>>, num |-> 1, den |-> 1],
      [name |-> "1.5",  limbs |-> <<0, 0, 0, 0, 0, 0, 48>>, num |-> 3, den |-> 2] }

\* The statistics computed after the Nx values, and the two Nx loops of
\* assess_quality.py, which has no calculate_nx.
FieldSteps(sc) ==
    StatsFields(sc) \cap
        ({"contigs_500+", "contigs_1kb+", "contigs_5kb+", "contigs_10kb+",
          "contigs_50kb+", "contigs_100kb+", "longest_10_sum"}
         \cup (IF sc = "assess_quality" THEN {"n50", "n90"} ELSE {}))

NxLists ==
    {SortDesc(cs) : cs \in (SeqsUpTo(1..MaxContigLen, MaxNxContigs) \ {<<>>})
                            \cup ExampleContigLists}

\* parse_fasta_stats has read a file whose records are cs and has sorted
\* the list.
InitNx ==
    /\ script \in Scripts
    /\ path = "assembly.fa"
    /\ exists = TRUE
    /\ \E cs \in NxLists :
           /\ lines = FastaOf(cs)
           /\ contigs = cs
           /\ current_seq = Repeat("A", cs[Len(cs)])
    /\ pos = Len(lines)
    /\ pc = "stats"
    /\ opens = 1
    /\ ioError = FALSE
    /\ result = Pending
    /\ peer = NoPeer
    /\ batch = <<>>
    /\ bi = 0
    /\ all_stats = <<>>
    /\ warned = <<>>
    /\ nxOut = NoNx
    /\ ToolsIdle

\* Mutant: the walk removes the lengths it goes over from the list.
CallNxConsuming(p) ==
    /\ pc = "stats"
    /\ script # "assess_quality"
    /\ p.name \notin DOMAIN nxOut
    /\ Cardinality(DOMAIN nxOut) < MaxCalls
    /\ nxOut' = nxOut @@ (p.name :>
                   [kind  |-> "returned",
                    value |-> calculate_nx(contigs, SumSeq(contigs), p.limbs)])
    /\ contigs' = SelectSeq(contigs,
                     LAMBDA c : c < calculate_nx(contigs, SumSeq(contigs), p.limbs))
    /\ UNCHANGED <<script, exists, lines, pc, pos, current_seq, opens, ioError,
                   result>>
    /\ UNCHANGED <<path, peer, batch, bi, all_stats, warned>>
    /\ UNCHANGED tools

\* calculate_nx(contigs, percentage)
CallNx(p) ==
    /\ pc = "stats"
    /\ script # "assess_quality"
    /\ p.name \notin DOMAIN nxOut
    /\ Cardinality(DOMAIN nxOut) < MaxCalls
    /\ nxOut' = nxOut @@ (p.name :>
                   [kind  |-> "returned",
                    value |-> calculate_nx(contigs, SumSeq(contigs), p.limbs)])
    /\ UNCHANGED <<script, exists, lines, pc, pos, contigs, current_seq, opens,
                   ioError, result>>
    /\ UNCHANGED <<path, peer, batch, bi, all_stats, warned>>
    /\ UNCHANGED tools

\* One of the expressions over the sorted list.
ComputeField(f) ==
    /\ pc = "stats"
    /\ f \notin DOMAIN nxOut
    /\ Cardinality(DOMAIN nxOut) < MaxCalls
    /\ nxOut' = nxOut @@ (f :>
                   [kind  |-> "returned",
                    value |-> StatsRecord(script, contigs, path)[f]])
    /\ UNCHANGED <<script, exists, lines, pc, pos, contigs, current_seq, opens,
                   ioError, result>>
    /\ UNCHANGED <<path, peer, batch, bi, all_stats, warned>>
    /\ UNCHANGED tools

NxNext ==
    \/ \E p \in Percentages : CallNx(p)
    \/ \E f \in FieldSteps(script) : ComputeField(f)

NxSpec == InitNx /\ [][NxNext]_vars

(***************************************************************************)
(* The programs outside the statistics engine run on their own: no         *)
(* invocation of parse_fasta_stats is in progress.                         *)
(***************************************************************************)
analysis == <<script, exists, lines, pc, pos, contigs, current_seq, opens, ioError,
              result, path, peer, batch, bi, all_stats, warned, nxOut>>

AnalysisIdle ==
    /\ script = "assess_all_conditions"
    /\ path = ""
    /\ exists = FALSE
    /\ lines = <<>>
    /\ pc = "not called"
    /\ pos = 0
    /\ contigs = <<>>
    /\ current_seq = <<>>
    /\ opens = 0
    /\ ioError = FALSE
    /\ result = Pending
    /\ peer = NoPeer
    /\ batch = <<>>
    /\ bi = 0
    /\ all_stats = <<>>
    /\ warned = <<>>
    /\ nxOut = NoNx

SampleNames == <<"S1", "S2", "S3", "S4", "S5", "S6", "S7", "S8">>

\* lst[lo:hi] of Python, 0-based and clipped to the list.
Slice(lst, lo, hi) ==
    LET h == IF hi > Len(lst) THEN Len(lst) ELSE hi
    IN  IF lo >= h THEN <<>> ELSE SubSeq(lst, lo + 1, h)

RECURSIVE Flatten(_)
Flatten(ss) == IF ss = <<>> THEN <<>> ELSE Head(ss) \o Flatten(Tail(ss))

(***************************************************************************)
(* create_random_groups.py: the samples of the k-mer groups are shuffled   *)
(* once per seed and cut into groups of the k-mer group sizes.             *)
(* random.shuffle under a given seed is some permutation of the list.      *)
(***************************************************************************)
MaxSamples == 2
MaxGroups == 2
MaxSeeds == 2

\* Group size lists of the k-mer results: up to MaxGroups groups with
\* MaxSamples samples at most in all; a group may be empty.
GroupSizeLists ==
    {gs \in SeqsUpTo(0..MaxSamples, MaxGroups) : SumSeq(gs) <= MaxSamples}

\* The groups of the given sizes over the sample list names.
RECURSIVE GroupsOf(_, _)
GroupsOf(sizes, names) ==
    IF sizes = <<>> THEN <<>>
    ELSE << [samples |-> SubSeq(names, 1, Head(sizes))] >>
         \o GroupsOf(Tail(sizes), SubSeq(names, Head(sizes) + 1, Len(names)))

\* The 'groups' of the k-mer results: distinct samples, or the first sample
\* named once more in the place of the last one.
KmerGroups ==
    {GroupsOf(gs, SubSeq(SampleNames, 1, SumSeq(gs))) : gs \in GroupSizeLists}
    \cup {GroupsOf(gs, Append(SubSeq(SampleNames, 1, SumSeq(gs) - 1), SampleNames[1])) :
            gs \in {g \in GroupSizeLists : SumSeq(g) >= 2}}

SeedLists == {SubSeq(<<42, 43, 44, 45, 46, 47>>, 1, n) : n \in 1..MaxSeeds}

InitRandomGroups ==
    /\ AnalysisIdle
    /\ OthersIdle("create_random_groups")
    /\ \E g \in KmerGroups, sd \in SeedLists :
           create_random_groups =
               [pc |-> "read", groups |-> g, seeds |-> sd, all_samples |-> <<>>,
                group_sizes |-> <<>>, seed_i |-> 0, shuffled_samples |-> <<>>,
                random_groups |-> <<>>, sample_idx |-> 0, written |-> <<>>,
                created_groupings |-> <<>>]

\* Lines 21-41: no groups returns None; otherwise the samples and the sizes
\* of the groups are collected in group order.
ReadKmerGroups ==
    /\ create_random_groups.pc = "read"
    /\ LET f == create_random_groups
       IN  create_random_groups' =
               IF f.groups = <<>>
               THEN [f EXCEPT !.pc = "returned None"]
               ELSE [f EXCEPT !.pc = "seed",
                              !.all_samples = Flatten([i \in 1..Len(f.groups) |-> f.groups[i].samples]),
                              !.group_sizes = [i \in 1..Len(f.groups) |-> Len(f.groups[i].samples)]]
    /\ UNCHANGED <<analysis, otherThanRandomGroups>>

\* Lines 44-55: the next seed; a copy of the sample list is shuffled.
Shuffle ==
    /\ create_random_groups.pc = "seed"
    /\ create_random_groups.seed_i < Len(create_random_groups.seeds)
    /\ \E shuffled \in Orders(create_random_groups.all_samples) :
           create_random_groups' =
               [create_random_groups EXCEPT !.pc = "groups",
                                            !.seed_i = @ + 1,
                                            !.shuffled_samples = shuffled,
                                            !.random_groups = <<>>,
                                            !.sample_idx = 0]
    /\ UNCHANGED <<analysis, otherThanRandomGroups>>

\* Mutant: sample_idx is not advanced, every group is cut from the start
\* of the shuffled list.
SliceGroupNoAdvance ==
    /\ create_random_groups.pc = "groups"
    /\ LET f == create_random_groups
           i == Len(f.random_groups) + 1
       IN  /\ i <= Len(f.group_sizes)
           /\ create_random_groups' =
                  [f EXCEPT !.random_groups =
                                Append(@, [group_index |-> i,
                                           samples |-> Slice(f.shuffled_samples, f.sample_idx,
                                                             f.sample_idx + f.group_sizes[i]),
                                           size |-> f.group_sizes[i]])]
    /\ UNCHANGED <<analysis, otherThanRandomGroups>>

\* Lines 57-68: one iteration of the loop over the group sizes.
SliceGroup ==
    /\ create_random_groups.pc = "groups"
    /\ LET f == create_random_groups
           i == Len(f.random_groups) + 1
       IN  /\ i <= Len(f.group_sizes)
           /\ create_random_groups' =
                  [f EXCEPT !.random_groups =
                                Append(@, [group_index |-> i,
                                           samples |-> Slice(f.shuffled_samples, f.sample_idx,
                                                             f.sample_idx + f.group_sizes[i]),
                                           size |-> f.group_sizes[i]]),
                            !.sample_idx = @ + f.group_sizes[i]]
    /\ UNCHANGED <<analysis, otherThanRandomGroups>>

\* Lines 71-99: the grouping of this seed is written to its own directory
\* and noted in created_groupings.
WriteGrouping ==
    /\ create_random_groups.pc = "groups"
    /\ LET f == create_random_groups
       IN  /\ Len(f.random_groups) = Len(f.group_sizes)
           /\ create_random_groups' =
                  [f EXCEPT !.pc = "seed",
                            !.written =
                                Append(@, [seed |-> f.seeds[f.seed_i],
                                           total_samples |-> Len(f.all_samples),
                                           total_groups |-> Len(f.random_groups),
                                           groups |-> f.random_groups]),
                            !.created_groupings =
                                Append(@, [seed |-> f.seeds[f.seed_i],
                                           groups |-> Len(f.random_groups)])]
    /\ UNCHANGED <<analysis, otherThanRandomGroups>>

\* Lines 101-118: after the last seed the summary is written and
\* created_groupings returned.
ReturnGroupings ==
    /\ create_random_groups.pc = "seed"
    /\ create_random_groups.seed_i = Len(create_random_groups.seeds)
    /\ create_random_groups' = [create_random_groups EXCEPT !.pc = "returned"]
    /\ UNCHANGED <<analysis, otherThanRandomGroups>>

RandomGroupsNext ==
    ReadKmerGroups \/ Shuffle \/ SliceGroup \/ WriteGrouping \/ ReturnGroupings

RandomGroupsSpec == InitRandomGroups /\ [][RandomGroupsNext]_vars

(***************************************************************************)
(* create_grouping_strategy of create_optimal_groupings.py and             *)
(* create_focused_group_strategy of create_focused_strategies.py: the      *)
(* shuffled samples are cut into groups of group_size, a last slice of one *)
(* sample is kept as an individual sample.  The focused function does this *)
(* once, with the seed 42; the other one once per seed.                    *)
(***************************************************************************)
MaxStrategySamples == 3
MaxGroupSize == 3

StrategyFunctions == {"create_grouping_strategy", "create_focused_group_strategy"}

InitStrategy ==
    /\ AnalysisIdle
    /\ OthersIdle("create_grouping_strategy")
    /\ \E fn \in StrategyFunctions, n \in 0..MaxStrategySamples,
          size \in 1..MaxGroupSize, sd \in SeedLists :
           /\ fn = "create_focused_group_strategy" => sd = <<42>>
           /\ create_grouping_strategy =
                  [pc |-> "seed", function |-> fn,
                   samples |-> SubSeq(SampleNames, 1, n), n_samples |-> n,
                   group_size |-> size, seeds |-> sd, seed_i |-> 0,
                   shuffled_samples |-> <<>>, i |-> 0, groups |-> <<>>,
                   written |-> <<>>]

\* random.seed(seed); shuffled_samples = samples.copy();
\* random.shuffle(shuffled_samples); groups = [].
StrategyShuffle ==
    /\ create_grouping_strategy.pc = "seed"
    /\ create_grouping_strategy.seed_i < Len(create_grouping_strategy.seeds)
    /\ \E shuffled \in Orders(create_grouping_strategy.samples) :
           create_grouping_strategy' =
               [create_grouping_strategy EXCEPT !.pc = "groups",
                                                !.seed_i = @ + 1,
                                                !.shuffled_samples = shuffled,
                                                !.i = 0,
                                                !.groups = <<>>]
    /\ UNCHANGED <<analysis, otherThanStrategy>>

\* One iteration of "for i in range(0, n_samples, group_size)": the slice
\* becomes a group when it has at least 2 samples.
GroupStep ==
    /\ create_grouping_strategy.pc = "groups"
    /\ LET f == create_grouping_strategy
           group_samples == Slice(f.shuffled_samples, f.i, f.i + f.group_size)
       IN  /\ f.i < f.n_samples
           /\ create_grouping_strategy' =
                  [f EXCEPT !.i = @ + f.group_size,
                            !.groups = IF Len(group_samples) >= 2
                                       THEN Append(@, [samples |-> group_samples,
                                                       size |-> Len(group_samples)])
                                       ELSE @]
    /\ UNCHANGED <<analysis, otherThanStrategy>>

\* What is written for one shuffle: the groups, the samples after the
\* grouped ones and the summary.
GroupingResult(f, individual_samples) ==
    LET total_grouped == SumSeq([k \in 1..Len(f.groups) |-> Len(f.groups[k].samples)])
    IN  [groups |-> f.groups,
         individual_samples |-> individual_samples,
         summary |-> [total_samples |-> f.n_samples,
                      grouped_samples |-> total_grouped,
                      individual_samples |-> Len(individual_samples),
                      total_groups |-> Len(f.groups),
                      target_group_size |-> f.group_size]]

\* Mutant: the samples left after the groups are not kept.
StrategyWriteNoLeftover ==
    /\ create_grouping_strategy.pc = "groups"
    /\ create_grouping_strategy.i >= create_grouping_strategy.n_samples
    /\ create_grouping_strategy' =
           [create_grouping_strategy EXCEPT
               !.pc = "seed",
               !.written = Append(@, GroupingResult(create_grouping_strategy, <<>>))]
    /\ UNCHANGED <<analysis, otherThanStrategy>>

\* After the loop: individual_samples = shuffled_samples[total_grouped:]
\* when fewer than n_samples are grouped, and the result is written.
StrategyWrite ==
    /\ create_grouping_strategy.pc = "groups"
    /\ LET f == create_grouping_strategy
           total_grouped == SumSeq([k \in 1..Len(f.groups) |-> Len(f.groups[k].samples)])
           individual_samples ==
               IF total_grouped < f.n_samples
               THEN Slice(f.shuffled_samples, total_grouped, Len(f.shuffled_samples))
               ELSE <<>>
       IN  /\ f.i >= f.n_samples
           /\ create_grouping_strategy' =
                  [f EXCEPT !.pc = "seed",
                            !.written = Append(@, GroupingResult(f, individual_samples))]
    /\ UNCHANGED <<analysis, otherThanStrategy>>

\* The function returns after its last seed.
StrategyReturn ==
    /\ create_grouping_strategy.pc = "seed"
    /\ create_grouping_strategy.seed_i = Len(create_grouping_strategy.seeds)
    /\ create_grouping_strategy' = [create_grouping_strategy EXCEPT !.pc = "returned"]
    /\ UNCHANGED <<analysis, otherThanStrategy>>

StrategyNext == StrategyShuffle \/ GroupStep \/ StrategyWrite \/ StrategyReturn

StrategySpec == InitStrategy /\ [][StrategyNext]_vars

(***************************************************************************)
(* get_assembly_stats of assess_quality.py: the directory is searched with *)
(* three patterns, found_files is extended with what each one matches, and *)
(* parse_fasta_stats is called on every element of found_files.  No read   *)
(* fails in these runs.                                                    *)
(***************************************************************************)
MaxDirFiles == 2

\* A file name as its parts between the dots.
NameFinalContigs == <<"final", "contigs", "fa">>

\* Files below the assembly directory, one directory level down.
DirEntries ==
    { [path |-> "g1/final.contigs.fa", name |-> NameFinalContigs, exists |-> TRUE,
       lines |-> FastaOf(<<2, 5>>)],
      [path |-> "g2/k77.contigs.fa", name |-> <<"k77", "contigs", "fa">>, exists |-> TRUE,
       lines |-> FastaOf(<<3>>)],
      [path |-> "g3/scaffolds.fa", name |-> <<"scaffolds", "fa">>, exists |-> TRUE,
       lines |-> << Chars(<<">", "c">>) >>],
      [path |-> "g1/log.txt", name |-> <<"log", "txt">>, exists |-> TRUE,
       lines |-> << Chars(<<"A">>) >>] }

\* The directory as the file system lists it: up to MaxDirFiles files, in
\* any order.
DirListings ==
    {d \in SeqsUpTo(DirEntries, MaxDirFiles) :
        \A i, j \in 1..Len(d) : d[i] = d[j] => i = j}

pattern_files == <<"*/final.contigs.fa", "*/*.contigs.fa", "*/*.fa">>

\* Path.glob for the three patterns, on the name of a file one level down.
Matches(pattern, name) ==
    CASE pattern = "*/final.contigs.fa" -> name = NameFinalContigs
      [] pattern = "*/*.contigs.fa" ->
             Len(name) >= 3 /\ SubSeq(name, Len(name) - 1, Len(name)) = <<"contigs", "fa">>
      [] pattern = "*/*.fa" ->
             Len(name) >= 2 /\ name[Len(name)] = "fa"

Glob(listing, pattern) == SelectSeq(listing, LAMBDA e : Matches(pattern, e.name))

InitQuality ==
    /\ script = "assess_quality"
    /\ path = ""
    /\ exists = FALSE
    /\ lines = <<>>
    /\ pc = "not called"
    /\ pos = 0
    /\ contigs = <<>>
    /\ current_seq = <<>>
    /\ opens = 0
    /\ ioError = FALSE
    /\ result = Pending
    /\ peer = NoPeer
    /\ batch = <<>>
    /\ bi = 0
    /\ all_stats = <<>>
    /\ warned = <<>>
    /\ nxOut = NoNx
    /\ OthersIdle("get_assembly_stats")
    /\ \E dir_exists \in BOOLEAN, listing \in DirListings :
           /\ ~dir_exists => listing = <<>>
           /\ get_assembly_stats =
                  [pc |-> "check", dir_exists |-> dir_exists, listing |-> listing,
                   pattern_i |-> 0, found_files |-> <<>>]

\* if not assembly_path.exists(): return pd.DataFrame().
CheckDir ==
    /\ get_assembly_stats.pc = "check"
    /\ get_assembly_stats' =
           [get_assembly_stats EXCEPT
               !.pc = IF get_assembly_stats.dir_exists THEN "glob" ELSE "returned empty"]
    /\ UNCHANGED <<analysis, otherThanQuality>>

\* One iteration of "for pattern in pattern_files":
\* found_files.extend(assembly_path.glob(pattern)).
GlobPattern ==
    /\ get_assembly_stats.pc = "glob"
    /\ get_assembly_stats.pattern_i < Len(pattern_files)
    /\ get_assembly_stats' =
           [get_assembly_stats EXCEPT
               !.pattern_i = @ + 1,
               !.found_files =
                   @ \o Glob(get_assembly_stats.listing,
                             pattern_files[get_assembly_stats.pattern_i + 1])]
    /\ UNCHANGED <<analysis, otherThanQuality>>

\* if not found_files: return pd.DataFrame(); otherwise the loop over
\* found_files is entered and parse_fasta_stats called on its first file.
ProcessFound ==
    /\ get_assembly_stats.pc = "glob"
    /\ get_assembly_stats.pattern_i = Len(pattern_files)
    /\ IF get_assembly_stats.found_files = <<>>
       THEN /\ get_assembly_stats' = [get_assembly_stats EXCEPT !.pc = "returned empty"]
            /\ UNCHANGED analysis
       ELSE /\ get_assembly_stats' = [get_assembly_stats EXCEPT !.pc = "loop"]
            /\ batch' = get_assembly_stats.found_files
            /\ bi' = 1
            /\ path' = get_assembly_stats.found_files[1].path
            /\ exists' = get_assembly_stats.found_files[1].exists
            /\ lines' = get_assembly_stats.found_files[1].lines
            /\ pc' = "start"
            /\ UNCHANGED <<script, pos, contigs, current_seq, opens, ioError, result,
                           peer, all_stats, warned, nxOut>>
    /\ UNCHANGED otherThanQuality

QualityNext ==
    \/ CheckDir \/ GlobPattern \/ ProcessFound
    \/ Open \/ ReadLine \/ EndOfFile \/ Return \/ NextFile

QualitySpec == InitQuality /\ [][QualityNext]_vars

(***************************************************************************)
(* assess_all_conditions.py: analyze_kmer_vs_random compares the k-mer     *)
(* rows of the table with the random rows metric by metric, and            *)
(* generate_comprehensive_report turns the comparison into a decision.     *)
(* Means are compared as exact fractions (the values are small integers).  *)
(***************************************************************************)
MaxMetricValue == 3

metrics == <<"total_length", "n50", "n90", "max_contig", "contigs_1kb+", "contigs_10kb+">>

\* The metric columns of the table: all of them, the first three, or none.
ColumnSets == {{metrics[k] : k \in 1..ncols} : ncols \in {0, 3, Len(metrics)}}

\* The random rows: two assemblies with 1 and 2 in every column.
RandomRows(columns) == << [m \in columns |-> 1], [m \in columns |-> 2] >>

\* The table has no k-mer row and the random rows, or one k-mer row with
\* any values and the random rows or none.
InitReport ==
    /\ AnalysisIdle
    /\ OthersIdle("generate_comprehensive_report")
    /\ \E columns \in ColumnSets, has_kmer, has_random \in BOOLEAN :
       \E row \in [columns -> 0..MaxMetricValue] :
           /\ has_kmer \/ has_random
           /\ ~has_kmer => \A m \in columns : row[m] = 0
           /\ generate_comprehensive_report =
                  [pc |-> "analyze",
                   df |-> [columns |-> columns,
                           kmer |-> IF has_kmer THEN <<row>> ELSE <<>>,
                           random |-> IF has_random THEN RandomRows(columns) ELSE <<>>],
                   metric_i |-> 0,
                   kmer_vs_random |-> [m \in {} |-> 0], decision |-> "none"]

\* The column m of the rows.
Column(rows, m) == [k \in 1..Len(rows) |-> rows[k][m]]

\* analyze_kmer_vs_random, lines 203-212: no k-mer rows or no random rows
\* returns None.
AnalyzeEmpty ==
    /\ generate_comprehensive_report.pc = "analyze"
    /\ generate_comprehensive_report.metric_i = 0
    /\ \/ generate_comprehensive_report.df.kmer = <<>>
       \/ generate_comprehensive_report.df.random = <<>>
    /\ generate_comprehensive_report' =
           [generate_comprehensive_report EXCEPT !.pc = "report", !.kmer_vs_random = None]
    /\ UNCHANGED <<analysis, otherThanReport>>

\* The entry of analysis_results for one metric: the mean of the k-mer
\* values against the mean, the maximum and the minimum of the random ones.
MetricResult(kmer_values, random_values) ==
    LET ks == SumSeq(kmer_values)
        kn == Len(kmer_values)
        rs == SumSeq(random_values)
        rn == Len(random_values)
    IN  [kmer_better_than_avg  |-> ks * rn > rs * kn,
         kmer_better_than_best |-> ks > MaxSeq(random_values) * kn,
         kmer_worse_than_worst |-> ks < MinSeq(random_values) * kn]

\* One iteration of "for metric in metrics": a metric that is not a column
\* is skipped.
AnalyzeMetric ==
    /\ generate_comprehensive_report.pc = "analyze"
    /\ LET f == generate_comprehensive_report
           metric == metrics[f.metric_i + 1]
       IN  /\ f.df.kmer # <<>>
           /\ f.df.random # <<>>
           /\ f.metric_i < Len(metrics)
           /\ generate_comprehensive_report' =
                  [f EXCEPT !.metric_i = @ + 1,
                            !.kmer_vs_random =
                                IF metric \in f.df.columns
                                THEN [m \in DOMAIN @ \cup {metric} |->
                                         IF m = metric
                                         THEN MetricResult(Column(f.df.kmer, m),
                                                           Column(f.df.random, m))
                                         ELSE @[m]]
                                ELSE @]
    /\ UNCHANGED <<analysis, otherThanReport>>

\* return analysis_results.
AnalyzeReturn ==
    /\ generate_comprehensive_report.pc = "analyze"
    /\ generate_comprehensive_report.df.kmer # <<>>
    /\ generate_comprehensive_report.df.random # <<>>
    /\ generate_comprehensive_report.metric_i = Len(metrics)
    /\ generate_comprehensive_report' = [generate_comprehensive_report EXCEPT !.pc = "report"]
    /\ UNCHANGED <<analysis, otherThanReport>>

\* sum(1 for r in kmer_vs_random.values() if r.get(flag, False)).
CountFlag(kmer_vs_random, flag) ==
    Cardinality({m \in DOMAIN kmer_vs_random : kmer_vs_random[m][flag]})

\* Mutant: PROMISING is decided without looking at worse_than_worst.
DecisionIgnoringWorst(kmer_vs_random) ==
    IF kmer_vs_random = None \/ DOMAIN kmer_vs_random = {} THEN "ANALYSIS_FAILED"
    ELSE LET beats_best == CountFlag(kmer_vs_random, "kmer_better_than_best")
             beats_avg == CountFlag(kmer_vs_random, "kmer_better_than_avg")
             worse_than_worst == CountFlag(kmer_vs_random, "kmer_worse_than_worst")
         IN  IF beats_best >= 4 THEN "STRONGLY PROMISING"
             ELSE IF beats_avg >= 4 THEN "PROMISING"
             ELSE IF beats_avg >= 3 /\ worse_than_worst <= 1 THEN "MIXED"
             ELSE "NOT PROMISING"

\* Lines 299-388: "if kmer_vs_random:" is false for None and for the empty
\* dict; otherwise the if/elif chain over the three counts.
Decision(kmer_vs_random) ==
    IF kmer_vs_random = None \/ DOMAIN kmer_vs_random = {} THEN "ANALYSIS_FAILED"
    ELSE LET beats_best == CountFlag(kmer_vs_random, "kmer_better_than_best")
             beats_avg == CountFlag(kmer_vs_random, "kmer_better_than_avg")
             worse_than_worst == CountFlag(kmer_vs_random, "kmer_worse_than_worst")
         IN  IF beats_best >= 4 THEN "STRONGLY PROMISING"
             ELSE IF beats_avg >= 4 /\ worse_than_worst = 0 THEN "PROMISING"
             ELSE IF beats_avg >= 3 /\ worse_than_worst <= 1 THEN "MIXED"
             ELSE "NOT PROMISING"

\* generate_comprehensive_report writes the report and returns decision.
WriteReport ==
    /\ generate_comprehensive_report.pc = "report"
    /\ generate_comprehensive_report' =
           [generate_comprehensive_report EXCEPT
               !.pc = "returned",
               !.decision = Decision(generate_comprehensive_report.kmer_vs_random)]
    /\ UNCHANGED <<analysis, otherThanReport>>

ReportNext == AnalyzeEmpty \/ AnalyzeMetric \/ AnalyzeReturn \/ WriteReport

ReportSpec == InitReport /\ [][ReportNext]_vars

(***************************************************************************)
(* generate_optimal_assembly_commands.py, process_strategy: Stage 1        *)
(* (generate_stage1_commands) makes one array job over the samples written *)
(* to sample_list.txt for the individual strategy, or one MEGAHIT command  *)
(* per group; Stage 2 (generate_stage2_commands) concatenates contigs      *)
(* files.  A path is the tuple of its parts below the Stage 1 directory of *)
(* the strategy.                                                           *)
(***************************************************************************)
\* The groups a grouping script writes for the samples 1..n in slices of
\* group_size, from the slice that starts after sample i.
RECURSIVE GroupsFrom(_, _, _, _)
GroupsFrom(samples, group_size, i, groups) ==
    IF i >= Len(samples) THEN groups
    ELSE LET group_samples == Slice(samples, i, i + group_size)
         IN  GroupsFrom(samples, group_size, i + group_size,
                        IF Len(group_samples) >= 2
                        THEN Append(groups, [group_id |-> Len(groups) + 1,
                                             samples |-> group_samples])
                        ELSE groups)

\* The strategy files: the individual strategy, and the grouped strategies
\* with their groups and the samples left over.
StrategyFiles ==
    { [strategy |-> "individual", groups |-> <<>>,
       individual_samples |-> SubSeq(SampleNames, 1, n)] : n \in 0..MaxStrategySamples }
    \cup
    { LET samples == SubSeq(SampleNames, 1, n)
          groups == GroupsFrom(samples, size, 0, <<>>)
          total_grouped == SumSeq([k \in 1..Len(groups) |-> Len(groups[k].samples)])
      IN  [strategy |-> "groups_size", groups |-> groups,
           individual_samples |-> Slice(samples, total_grouped, n)] :
        n \in 0..MaxStrategySamples, size \in 1..MaxGroupSize }

SamplesNamed(strategy) ==
    {strategy.individual_samples[k] : k \in 1..Len(strategy.individual_samples)}
    \cup UNION {{strategy.groups[g].samples[k] : k \in 1..Len(strategy.groups[g].samples)} :
                  g \in 1..Len(strategy.groups)}

\* The strategy is loaded; with_reads are the samples whose R1 and R2
\* files exist in the samples directory.
InitOptimal ==
    /\ AnalysisIdle
    /\ OthersIdle("process_strategy")
    /\ \E strategy \in StrategyFiles :
       \E with_reads \in SUBSET SamplesNamed(strategy) :
           process_strategy =
               [pc |-> "stage1", strategy |-> strategy, with_reads |-> with_reads,
                k |-> 0, valid_samples |-> <<>>, stage1_commands |-> <<>>,
                stage2_command |-> None]

\* find_sample_files: (None, None) unless both read files exist.
HasReads(f, sample_id) == sample_id \in f.with_reads

\* Individual strategy, one iteration of the loop over individual_samples:
\* the sample is written to sample_list.txt when its read files exist.
WriteSampleLine ==
    /\ process_strategy.pc = "stage1"
    /\ LET f == process_strategy
       IN  /\ f.strategy.strategy = "individual"
           /\ f.k < Len(f.strategy.individual_samples)
           /\ process_strategy' =
                  [f EXCEPT !.k = @ + 1,
                            !.valid_samples =
                                IF HasReads(f, f.strategy.individual_samples[f.k + 1])
                                THEN Append(@, f.strategy.individual_samples[f.k + 1])
                                ELSE @]
    /\ UNCHANGED <<analysis, otherThanOptimal>>

\* Individual strategy, after the loop: one array job when valid_samples
\* is not empty.  Task i runs MEGAHIT on line i of sample_list.txt with
\* -o individual_<sample>.
ArrayCommand ==
    /\ process_strategy.pc = "stage1"
    /\ LET f == process_strategy
       IN  /\ f.strategy.strategy = "individual"
           /\ f.k = Len(f.strategy.individual_samples)
           /\ process_strategy' =
                  [f EXCEPT !.pc = "stage2",
                            !.stage1_commands =
                                IF f.valid_samples # <<>>
                                THEN << [type |-> "array",
                                         array_size |-> Len(f.valid_samples),
                                         sample_list |-> f.valid_samples] >>
                                ELSE <<>>]
    /\ UNCHANGED <<analysis, otherThanOptimal>>

\* Grouped strategy, one iteration of the loop over the groups: the
\* samples with read files are assembled together with -o
\* group_<id>/megahit_assembly; a group without any is skipped.
GroupCommand ==
    /\ process_strategy.pc = "stage1"
    /\ LET f == process_strategy
           group == f.strategy.groups[f.k + 1]
           sample_pairs == SelectSeq(group.samples, LAMBDA s : HasReads(f, s))
       IN  /\ f.strategy.strategy # "individual"
           /\ f.k < Len(f.strategy.groups)
           /\ process_strategy' =
                  [f EXCEPT !.k = @ + 1,
                            !.stage1_commands =
                                IF sample_pairs # <<>>
                                THEN Append(@, [type |-> "group",
                                                name |-> group.group_id,
                                                reads |-> sample_pairs,
                                                o |-> <<"group", group.group_id,
                                                        "megahit_assembly">>,
                                                output |-> <<"group", group.group_id,
                                                             "megahit_assembly",
                                                             "final.contigs.fa">>,
                                                samples_count |-> Len(sample_pairs)])
                                ELSE @]
    /\ UNCHANGED <<analysis, otherThanOptimal>>

\* Grouped strategy: the loop over the groups is over (or there are no
\* groups), generate_stage1_commands returns.
Stage1Return ==
    /\ process_strategy.pc = "stage1"
    /\ process_strategy.strategy.strategy # "individual"
    /\ process_strategy.k = Len(process_strategy.strategy.groups)
    /\ process_strategy' = [process_strategy EXCEPT !.pc = "stage2"]
    /\ UNCHANGED <<analysis, otherThanOptimal>>

\* The input files of the concatenation: for an array job one contigs file
\* per sample of strategy['individual_samples'], otherwise the outputs of
\* the Stage 1 commands.
InputFiles(f) ==
    IF Len(f.stage1_commands) = 1 /\ f.stage1_commands[1].type = "array"
    THEN [k \in 1..Len(f.strategy.individual_samples) |->
             <<"individual", f.strategy.individual_samples[k], "final.contigs.fa">>]
    ELSE [k \in 1..Len(f.stage1_commands) |-> f.stage1_commands[k].output]

\* generate_stage2_commands: None without Stage 1 commands or input files.
Stage2 ==
    /\ process_strategy.pc = "stage2"
    /\ LET f == process_strategy
       IN  process_strategy' =
               [f EXCEPT !.pc = "done",
                         !.stage2_command =
                             IF f.stage1_commands = <<>> \/ InputFiles(f) = <<>>
                             THEN None
                             ELSE [kind |-> "concat", input_files |-> InputFiles(f)]]
    /\ UNCHANGED <<analysis, otherThanOptimal>>

OptimalNext == WriteSampleLine \/ ArrayCommand \/ GroupCommand \/ Stage1Return \/ Stage2

OptimalSpec == InitOptimal /\ [][OptimalNext]_vars

(***************************************************************************)
(* generate_staged_assembly_commands.py, main: the MEGAHIT commands of the *)
(* individual, k-mer, random and global conditions, the concatenation and  *)
(* Flye commands made from them, and the SLURM scripts write_staged_scripts*)
(* writes.  A random condition is named after the seed in the name of its  *)
(* directory.  A path is the tuple of its parts below the output           *)
(* directory.                                                              *)
(***************************************************************************)
\* The seeds the random groupings may have been created with.
StagedSeeds == {5, 42, 46, 47}

\* The samples with an R1 file in the samples directory.
StagedSamples == <<"S1", "S2">>

\* The conditions write_staged_scripts takes as grouped.
GroupedConditions ==
    {<<"random", 42>>, <<"random", 43>>, <<"random", 44>>, <<"random", 45>>,
     <<"random", 46>>, <<"kmer">>}

InitStaged ==
    /\ AnalysisIdle
    /\ OthersIdle("generate_staged_assembly_commands")
    /\ \E with_reads \in SUBSET {StagedSamples[k] : k \in 1..Len(StagedSamples)},
          seeds \in SUBSET StagedSeeds, kmer_groups \in BOOLEAN :
           generate_staged_assembly_commands =
               [pc |-> "individual", with_reads |-> with_reads,
                kmer_groups |-> IF kmer_groups
                                THEN << [group_id |-> <<"kmer_group", 1>>,
                                         samples |-> StagedSamples] >>
                                ELSE <<>>,
                random_seeds |-> seeds,
                all_commands |-> <<>>, scripts |-> <<>>]

\* A MEGAHIT command: megahit -o output_dir --out-prefix prefix writes
\* output_dir/prefix.contigs.fa.
MegahitCommand(condition, dir, group_id, prefix, samples) ==
    [stage |-> "megahit", condition |-> condition, group_id |-> group_id,
     samples |-> samples, n_samples |-> Len(samples),
     output_dir |-> <<dir, group_id>>,
     contigs_file |-> <<dir, group_id, prefix, "contigs.fa">>]

\* generate_megahit_commands_individual: one command per sample with both
\* read files.
IndividualCommands ==
    /\ generate_staged_assembly_commands.pc = "individual"
    /\ LET f == generate_staged_assembly_commands
           valid == SelectSeq(StagedSamples, LAMBDA s : s \in f.with_reads)
       IN  generate_staged_assembly_commands' =
               [f EXCEPT !.pc = "kmer",
                         !.all_commands =
                             @ \o [k \in 1..Len(valid) |->
                                      MegahitCommand(<<"individual">>, <<"megahit_individual">>,
                                                     <<valid[k]>>, <<valid[k]>>, <<valid[k]>>)]]
    /\ UNCHANGED <<analysis, otherThanStaged>>

\* generate_megahit_commands_grouped: one command per group that has a
\* sample with read files.
GroupedCommands(f, groups, condition, dir) ==
    LET Valid(g) == SelectSeq(g.samples, LAMBDA s : s \in f.with_reads)
        kept == SelectSeq(groups, LAMBDA g : Valid(g) # <<>>)
    IN  [k \in 1..Len(kept) |->
            MegahitCommand(condition, dir, kept[k].group_id, kept[k].group_id,
                           Valid(kept[k]))]

KmerCommands ==
    /\ generate_staged_assembly_commands.pc = "kmer"
    /\ LET f == generate_staged_assembly_commands
       IN  generate_staged_assembly_commands' =
               [f EXCEPT !.pc = "random",
                         !.all_commands =
                             @ \o GroupedCommands(f, f.kmer_groups, <<"kmer">>, <<"megahit_kmer">>)]
    /\ UNCHANGED <<analysis, otherThanStaged>>

\* str(n): the decimal digits of n.
RECURSIVE Decimal(_)
Decimal(n) == IF n < 10 THEN <<n>> ELSE Append(Decimal(n \div 10), n % 10)

\* The order of the paths random_seed_<a>/assembly_recommendations.json and
\* random_seed_<b>/...: the directory names compared as text.
RECURSIVE TextLess(_, _)
TextLess(a, b) ==
    IF a = <<>> THEN b # <<>>
    ELSE IF b = <<>> THEN FALSE
    ELSE IF Head(a) # Head(b) THEN Head(a) < Head(b)
    ELSE TextLess(Tail(a), Tail(b))

\* One iteration of "for random_file in sorted(random_files)": the
\* grouping of the first directory not yet done, one group with the samples
\* in another order.
RandomCommands ==
    /\ generate_staged_assembly_commands.pc = "random"
    /\ LET f == generate_staged_assembly_commands
       IN  /\ f.random_seeds # {}
           /\ LET seed_num == CHOOSE s \in f.random_seeds :
                                  \A t \in f.random_seeds \ {s} :
                                      TextLess(Decimal(s), Decimal(t))
                  groups == << [group_id |-> <<"random_seed", seed_num, "group", 1>>,
                                samples |-> <<StagedSamples[2], StagedSamples[1]>>] >>
              IN  generate_staged_assembly_commands' =
                      [f EXCEPT !.random_seeds = @ \ {seed_num},
                                !.all_commands =
                                    @ \o GroupedCommands(f, groups, <<"random", seed_num>>,
                                                         <<"megahit_random", seed_num>>)]
    /\ UNCHANGED <<analysis, otherThanStaged>>

\* generate_megahit_command_global: one command over all samples with read
\* files, none when there is no such sample.
GlobalCommand ==
    /\ generate_staged_assembly_commands.pc = "random"
    /\ LET f == generate_staged_assembly_commands
           valid == SelectSeq(StagedSamples, LAMBDA s : s \in f.with_reads)
       IN  /\ f.random_seeds = {}
           /\ generate_staged_assembly_commands' =
                  [f EXCEPT !.pc = "concatenate",
                            !.all_commands =
                                IF valid = <<>> THEN @
                                ELSE Append(@, MegahitCommand(<<"global">>, <<"megahit_global">>,
                                                              <<"global_all_samples">>,
                                                              <<"global_assembly">>, valid))]
    /\ UNCHANGED <<analysis, otherThanStaged>>

\* The conditions of the commands in the order of their first command.
RECURSIVE ConditionsOf(_, _)
ConditionsOf(commands, seen) ==
    IF commands = <<>> THEN seen
    ELSE ConditionsOf(Tail(commands),
                      IF \E k \in 1..Len(seen) : seen[k] = Head(commands).condition
                      THEN seen ELSE Append(seen, Head(commands).condition))

\* generate_concatenation_commands and generate_flye_commands: per
\* condition other than global one cat over the contigs files of its
\* MEGAHIT commands and one Flye run on the result; the global contigs are
\* copied.
ConcatAndFlye ==
    /\ generate_staged_assembly_commands.pc = "concatenate"
    /\ LET f == generate_staged_assembly_commands
           megahit_commands == SelectSeq(f.all_commands, LAMBDA c : c.stage = "megahit")
           conditions == SelectSeq(ConditionsOf(megahit_commands, <<>>),
                                   LAMBDA c : c # <<"global">>)
           Of(c) == SelectSeq(megahit_commands, LAMBDA m : m.condition = c)
           concat_commands ==
               [k \in 1..Len(conditions) |->
                   [stage |-> "concatenate", condition |-> conditions[k],
                    input_files |-> [i \in 1..Len(Of(conditions[k])) |->
                                        Of(conditions[k])[i].contigs_file],
                    output_file |-> <<"concatenated", conditions[k]>>]]
           flye_commands ==
               [k \in 1..Len(concat_commands) |->
                   [stage |-> "flye_meta", condition |-> concat_commands[k].condition,
                    input_file |-> concat_commands[k].output_file]]
           global_commands == SelectSeq(megahit_commands, LAMBDA m : m.condition = <<"global">>)
           copy_commands ==
               IF global_commands = <<>> THEN <<>>
               ELSE << [stage |-> "copy_global", condition |-> <<"global">>,
                        input_file |-> global_commands[1].contigs_file] >>
       IN  generate_staged_assembly_commands' =
               [f EXCEPT !.pc = "write",
                         !.all_commands = @ \o concat_commands \o flye_commands \o copy_commands]
    /\ UNCHANGED <<analysis, otherThanStaged>>

\* A SLURM array script: task i of --array=1-N runs COMMANDS[i].
Script(name, commands) ==
    [name |-> name, array_size |-> Len(commands), COMMANDS |-> commands]

\* write_staged_scripts: the MEGAHIT commands go to the individual, the
\* grouped and the global script by condition, every other stage to a
\* script of its own; a script is written when it has commands.
WriteScripts ==
    /\ generate_staged_assembly_commands.pc = "write"
    /\ LET f == generate_staged_assembly_commands
           Stage(s) == SelectSeq(f.all_commands, LAMBDA c : c.stage = s)
           individual_cmds == SelectSeq(Stage("megahit"), LAMBDA c : c.condition = <<"individual">>)
           grouped_cmds == SelectSeq(Stage("megahit"), LAMBDA c : c.condition \in GroupedConditions)
           global_cmds == SelectSeq(Stage("megahit"), LAMBDA c : c.condition = <<"global">>)
           candidates == << Script("run_megahit_individual.sh", individual_cmds),
                            Script("run_megahit_grouped.sh", grouped_cmds),
                            Script("run_megahit_global.sh", global_cmds),
                            Script("run_concatenate.sh", Stage("concatenate")),
                            Script("run_flye_meta.sh", Stage("flye_meta")),
                            Script("run_copy_global.sh", Stage("copy_global")) >>
       IN  generate_staged_assembly_commands' =
               [f EXCEPT !.pc = "done",
                         !.scripts = SelectSeq(candidates, LAMBDA s : s.array_size > 0)]
    /\ UNCHANGED <<analysis, otherThanStaged>>

StagedNext ==
    \/ IndividualCommands \/ KmerCommands \/ RandomCommands \/ GlobalCommand
    \/ ConcatAndFlye \/ WriteScripts

StagedSpec == InitStaged /\ [][StagedNext]_vars

(***************************************************************************)
(* Reference definitions for the properties, written over the input lines  *)
(* and the parsed lengths and not over the operators above.                *)
(***************************************************************************)
\* The invocation read the whole file without an error and has the parsed
\* lengths in the order they were appended, before they are sorted.
ParsedAll == pc = "parsed" /\ exists /\ ~ioError

Returned == pc = "done" /\ result.kind = "stats"

IsHeader(l) == StartsWithGt(Strip(l))

HeaderIdx(ls) == {i \in 1..Len(ls) : IsHeader(ls[i])}

\* Sum of the stripped lengths of the lines lo..hi.
RECURSIVE StrippedLen(_, _, _)
StrippedLen(ls, lo, hi) ==
    IF hi < lo THEN 0 ELSE StrLen(Strip(ls[hi])) + StrippedLen(ls, lo, hi - 1)

\* The record of the header at line h ends before the next header.
RecordEnd(ls, h) ==
    LET later == {j \in HeaderIdx(ls) : j > h}
    IN  IF later = {} THEN Len(ls)
        ELSE (CHOOSE j \in later : \A k \in later : j <= k) - 1

RecordLen(ls, h) == StrippedLen(ls, h + 1, RecordEnd(ls, h))

\* The lengths of the records with a header, in file order, empty ones left out.
RECURSIVE HeadedFrom(_, _)
HeadedFrom(ls, i) ==
    IF i > Len(ls) THEN <<>>
    ELSE IF IsHeader(ls[i]) /\ RecordLen(ls, i) > 0
         THEN <<RecordLen(ls, i)>> \o HeadedFrom(ls, i + 1)
         ELSE HeadedFrom(ls, i + 1)

HeadedRecordLengths(ls) == HeadedFrom(ls, 1)

\* The last record: the lines after the last header (all lines when there is
\* no header).
LastRecordLen(ls) ==
    LET hs == HeaderIdx(ls)
        h  == IF hs = {} THEN 0 ELSE CHOOSE j \in hs : \A k \in hs : k <= j
    IN  StrippedLen(ls, h + 1, Len(ls))

RECURSIVE RefSumTo(_, _)
RefSumTo(s, n) == IF n = 0 THEN 0 ELSE s[n] + RefSumTo(s, n - 1)

RefTotal(s) == RefSumTo(s, Len(s))

Values(s) == {s[i] : i \in 1..Len(s)}

\* Sum of the lengths that are >= v.
RefSumGE(s, v) == RefTotal(SelectSeq(s, LAMBDA c : c >= v))

\* Nx: walking from longest to shortest, the first contig at which the running
\* sum is >= x% of the total is the longest length L such that the contigs of
\* length >= L together reach x% of the total.
RefNx(s, x) ==
    LET reach == {v \in Values(s) : 100 * RefSumGE(s, v) >= x * RefTotal(s)}
    IN  CHOOSE v \in reach : \A w \in reach : w <= v

SeqHeaderAcgt8 ==
    << Chars(<<">", "s", "e", "q", "1">>), Chars(<<"A", "C", "G", "T", "A", "C", "G", "T">>) >>

SeqEmptyThenAcgt ==
    << Chars(<<">", "s", "e", "q", "1">>), Chars(<<">", "s", "e", "q", "2">>),
       Chars(<<"A", "C", "G", "T">>) >>

SeqMultiLine ==
    << Chars(<<">", "s", "e", "q", "1">>), Chars(<<"\t", "A", "C", " ", "G", "T", "\t">>),
       Chars(<<>>), Chars(<<"A", "C", "G", "T">>), Chars(<<">", "s", "e", "q", "2">>) >>

(***************************************************************************)
(* C1: every n50/n75/n90 that is returned equals the length of the first   *)
(* contig, walking from longest to shortest, at which the running sum is   *)
(* >= x% of total_length (x = 50, 75, 90).                                 *)
(***************************************************************************)
C1_NxIsFirstReaching ==
    Returned =>
        /\ result.n50 = RefNx(contigs, 50)
        /\ result.n90 = RefNx(contigs, 90)
        /\ script # "assess_quality" => result.n75 = RefNx(contigs, 75)

\* Lengths 1, 3, 6: the running sum 6 + 3 is exactly 90% of 10.
C1_Witness ==
    /\ Returned
    /\ lines = FastaOf(<<1, 3, 6>>)
    /\ contigs = <<6, 3, 1>>
    /\ result.n50 = 6
    /\ result.n90 = 3

(***************************************************************************)
(* C2: when the stream ends and the last record has a non-empty sequence,  *)
(* its length is the last parsed contig length; the file ">seq1",          *)
(* "ACGTACGT" yields exactly one contig of length 8.                       *)
(***************************************************************************)
C2_EndOfFileFlush ==
    ParsedAll =>
        /\ LastRecordLen(lines) > 0 =>
               /\ contigs # <<>>
               /\ contigs[Len(contigs)] = LastRecordLen(lines)
        /\ lines = SeqHeaderAcgt8 => contigs = <<8>>

C2_Witness ==
    /\ Returned
    /\ lines = SeqHeaderAcgt8
    /\ result.n_contigs = 1
    /\ result.total_length = 8

(***************************************************************************)
(* C3: every parsed contig length is greater than 0, in every state; the   *)
(* file ">seq1", ">seq2", "ACGT" yields n_contigs = 1.                     *)
(***************************************************************************)
C3_LengthsPositive ==
    /\ \A i \in 1..Len(contigs) : contigs[i] > 0
    /\ (pc = "done" /\ ~ioError /\ lines = SeqEmptyThenAcgt) =>
           (result.kind = "stats" /\ result.n_contigs = 1)

C3_Witness ==
    /\ Returned
    /\ lines = SeqEmptyThenAcgt
    /\ contigs = <<4>>
    /\ result.n_contigs = 1

(***************************************************************************)
(* C4: the parsed lengths of the records that have a header are, in file   *)
(* order, the sums of the stripped lengths of the lines between the header *)
(* and the next header or the end of the file; the header text counts for  *)
(* nothing.                                                                *)
(***************************************************************************)
C4_RecordLengthIsSumOfLines ==
    ParsedAll =>
        LET recs == HeadedRecordLengths(lines)
            n    == Len(contigs)
        IN  /\ n >= Len(recs)
            /\ SubSeq(contigs, n - Len(recs) + 1, n) = recs

\* Two sequence lines with surrounding tabs, a blank line between them, and
\* an empty record at the end: 5 + 0 + 4.
C4_Witness ==
    /\ ParsedAll
    /\ lines = SeqMultiLine
    /\ contigs = <<9>>

(***************************************************************************)
(* C5: lines before the first header contribute no entry: the parsed       *)
(* lengths are those of the records that have a header.                    *)
(***************************************************************************)
C5_LeadingContentIgnored ==
    ParsedAll => contigs = HeadedRecordLengths(lines)

(***************************************************************************)
(* C6: on a path that does not exist the result is None, nothing is opened *)
(* or read and no error is raised.                                         *)
(***************************************************************************)
C6_MissingFileIsNone ==
    ~exists =>
        /\ opens = 0
        /\ pos = 0
        /\ ~ioError
        /\ pc \in {"start", "done"}
        /\ pc = "done" => result = None

C6_Witness ==
    /\ ~exists
    /\ pc = "done"
    /\ result = None

(***************************************************************************)
(* C7: a file read to its end with no non-empty record gives None, and a   *)
(* returned statistics record never has n_contigs = 0 or total_length = 0. *)
(***************************************************************************)
C7_EmptyIsNone ==
    /\ (pc = "done" /\ exists /\ ~ioError /\ contigs = <<>>) => result = None
    /\ result.kind = "stats" =>
           /\ contigs # <<>>
           /\ result.n_contigs > 0
           /\ result.total_length > 0

\* A file of headers only.
C7_Witness ==
    /\ pc = "done"
    /\ exists
    /\ ~ioError
    /\ lines # <<>>
    /\ \A i \in 1..Len(lines) : IsHeader(lines[i])
    /\ result = None

(***************************************************************************)
(* C8: once an I/O error has occurred the invocation has returned None,    *)
(* whatever was parsed before.                                             *)
(***************************************************************************)
C8_IoErrorIsNone ==
    ioError => (pc = "done" /\ result = None)

\* The error comes after a record was parsed and before the end of the file.
C8_Witness ==
    /\ ioError
    /\ contigs # <<>>
    /\ pos < Len(lines)
    /\ result = None

(***************************************************************************)
(* C9: n50 >= n75 >= n90 in every returned record that has the three.      *)
(***************************************************************************)
C9_NxMonotone ==
    (Returned /\ script # "assess_quality") =>
        (result.n50 >= result.n75 /\ result.n75 >= result.n90)

C9_Witness ==
    /\ Returned
    /\ script # "assess_quality"
    /\ result.n50 > result.n75
    /\ result.n75 > result.n90

(***************************************************************************)
(* C10: total_length is the sum of the parsed lengths, n_contigs their     *)
(* count, max_contig and min_contig the largest and the smallest of them.  *)
(***************************************************************************)
\* The lengths the loop appended, in file order: the content before the
\* first header when there is any, then the records with a header.
RefParsedLengths(ls) ==
    LET hs      == HeaderIdx(ls)
        first   == IF hs = {} THEN Len(ls) + 1 ELSE CHOOSE j \in hs : \A k \in hs : j <= k
        leading == StrippedLen(ls, 1, first - 1)
    IN  (IF leading > 0 THEN <<leading>> ELSE <<>>) \o HeadedRecordLengths(ls)

C10_Aggregates ==
    Returned =>
        LET parsed == RefParsedLengths(lines)
        IN  /\ Len(contigs) = Len(parsed)
            /\ result.total_length = RefTotal(parsed)
            /\ result.n_contigs = Len(parsed)
            /\ result.max_contig \in Values(parsed)
            /\ \A v \in Values(parsed) : v <= result.max_contig
            /\ result.min_contig \in Values(parsed)
            /\ \A v \in Values(parsed) : v >= result.min_contig

\* Unsorted lengths with a repeated value.
C10_Witness ==
    /\ Returned
    /\ lines = FastaOf(<<2, 5, 2>>)
    /\ contigs = <<5, 2, 2>>
    /\ result.total_length = 9
    /\ result.max_contig = 5
    /\ result.min_contig = 2

(***************************************************************************)
(* C12: the size-threshold counts a copy reports do not increase with the  *)
(* threshold, and none exceeds n_contigs.                                  *)
(***************************************************************************)
ThresholdFields ==
    <<"contigs_500+", "contigs_1kb+", "contigs_5kb+", "contigs_10kb+",
      "contigs_50kb+", "contigs_100kb+">>

C12_ThresholdCountsMonotone ==
    Returned =>
        \A i, j \in 1..Len(ThresholdFields) :
            (/\ i <= j
             /\ ThresholdFields[i] \in DOMAIN result
             /\ ThresholdFields[j] \in DOMAIN result) =>
                /\ result[ThresholdFields[i]] >= result[ThresholdFields[j]]
                /\ result[ThresholdFields[i]] <= result.n_contigs

\* Every reported count differs from the next and the smallest is not 0.
C12_Witness ==
    /\ Returned
    /\ script = "assess_final_assemblies"
    /\ result.n_contigs > result["contigs_1kb+"]
    /\ result["contigs_1kb+"] > result["contigs_5kb+"]
    /\ result["contigs_5kb+"] > result["contigs_10kb+"]
    /\ result["contigs_10kb+"] > result["contigs_50kb+"]
    /\ result["contigs_50kb+"] > result["contigs_100kb+"]
    /\ result["contigs_100kb+"] > 0

(***************************************************************************)
(* C13: longest_10_sum is the sum of the 10 longest contigs when there are *)
(* at least 10, total_length when there are fewer, and never more than     *)
(* total_length; lengths 500, 300, 200 give 1000.                          *)
(***************************************************************************)
\* Sum of the lengths at the positions in S.
RECURSIVE RefSumAt(_, _)
RefSumAt(s, S) ==
    IF S = {} THEN 0
    ELSE LET i == CHOOSE x \in S : TRUE IN s[i] + RefSumAt(s, S \ {i})

\* The largest sum of k of the lengths.
RefTopSum(s, k) ==
    LET sums == {RefSumAt(s, S) : S \in {T \in SUBSET (1..Len(s)) : Cardinality(T) = k}}
    IN  CHOOSE m \in sums : \A w \in sums : w <= m

C13_LongestTenSum ==
    (Returned /\ "longest_10_sum" \in DOMAIN result) =>
        /\ Len(contigs) >= 10 => result.longest_10_sum = RefTopSum(contigs, 10)
        /\ Len(contigs) < 10 => result.longest_10_sum = RefTotal(contigs)
        /\ result.longest_10_sum <= RefTotal(contigs)
        /\ contigs = <<500, 300, 200>> => result.longest_10_sum = 1000

\* Eleven contigs: the shortest one, of length 1, is left out.
C13_Witness ==
    /\ Returned
    /\ Len(contigs) = 11
    /\ result.total_length = 44
    /\ result.longest_10_sum = 43

(***************************************************************************)
(* C14: records of lengths 1000, 800, 600, 400, 200 in any file order give *)
(* n_contigs 5, total_length 3000, max 1000, min 200, mean 600, median     *)
(* 600, n50 800 and n90 400.                                               *)
(***************************************************************************)
C14_EndToEnd ==
    (Returned /\ Len(contigs) = 5 /\ Values(contigs) = {1000, 800, 600, 400, 200}) =>
        /\ result.n_contigs = 5
        /\ result.total_length = 3000
        /\ result.max_contig = 1000
        /\ result.min_contig = 200
        /\ result.mean_contig = [int |-> 600, frac |-> <<>>]
        /\ result.median_contig = [int |-> 600, frac |-> <<>>]
        /\ result.n50 = 800
        /\ result.n90 = 400

C14_Witness ==
    /\ Returned
    /\ lines = FastaOf(<<600, 200, 1000, 400, 800>>)
    /\ contigs = <<1000, 800, 600, 400, 200>>
    /\ result.n50 = 800
    /\ result.median_contig = [int |-> 600, frac |-> <<>>]

(***************************************************************************)
(* What a single invocation returns when it runs alone and no I/O error    *)
(* occurs, from the lines of the file.                                     *)
(***************************************************************************)
RefContigs(ls) ==
    LET hs    == HeaderIdx(ls)
        first == IF hs = {} THEN Len(ls) + 1
                 ELSE CHOOSE j \in hs : \A k \in hs : j <= k
        lead  == StrippedLen(ls, 1, first - 1)
    IN  (IF lead > 0 THEN <<lead>> ELSE <<>>) \o HeadedRecordLengths(ls)

AloneResult(sc, p, ex, ls) ==
    LET Stats(cs) == IF cs = <<>> THEN None ELSE StatsRecord(sc, cs, p)
    IN  IF ~ex THEN None ELSE Bind(RefContigs(ls), Stats)

(***************************************************************************)
(* C19: with two invocations in progress, interleaved at any line, each    *)
(* returns what it returns alone, and an invocation that has not returned  *)
(* can always take its next step, whatever the other one is doing.         *)
(***************************************************************************)
C19_ConcurrentInvocationsIndependent ==
    peer # NoPeer =>
        /\ (pc = "done" /\ ~ioError) =>
               result = AloneResult(script, path, exists, lines)
        /\ (peer.pc = "done" /\ ~peer.ioError) =>
               peer.result = AloneResult(peer.script, peer.path, peer.exists,
                                         peer.lines)
        /\ pc # "done" => ENABLED Next
        /\ peer.pc # "done" => ENABLED Switch

\* One invocation has returned statistics while the other one, on another
\* file, is in the middle of its file with a record already parsed.
C19_Witness ==
    /\ peer # NoPeer
    /\ Returned
    /\ peer.pc = "reading"
    /\ peer.pos > 0
    /\ peer.pos < Len(peer.lines)
    /\ peer.contigs # <<>>
    /\ peer.lines # lines

(***************************************************************************)
(* Reference definitions for the batch.                                    *)
(***************************************************************************)
FileAt(p) == CHOOSE f \in FileSystem : f.path = p

\* The rows of the files of fs that yield statistics when parsed alone.
RECURSIVE ExpectedRows(_, _)
ExpectedRows(sc, fs) ==
    IF fs = <<>> THEN <<>>
    ELSE LET f      == Head(fs)
             Row(r) == IF r = None THEN <<>> ELSE <<r>>
         IN  Bind(AloneResult(sc, f.path, f.exists, f.lines), Row)
                 \o ExpectedRows(sc, Tail(fs))

\* The paths of the files of fs that yield no statistics when parsed alone.
RECURSIVE ExpectedWarned(_, _)
ExpectedWarned(sc, fs) ==
    IF fs = <<>> THEN <<>>
    ELSE LET f == Head(fs)
         IN  (IF AloneResult(sc, f.path, f.exists, f.lines) = None
              THEN <<f.path>> ELSE <<>>) \o ExpectedWarned(sc, Tail(fs))

\* a is b with some of its elements left out.
IsSubseq(a, b) ==
    \E T \in SUBSET (1..Len(b)) :
        /\ Cardinality(T) = Len(a)
        /\ \A k \in 1..Len(a) :
               a[k] = b[CHOOSE i \in T : Cardinality({j \in T : j <= i}) = k]

\* The number of files whose loop body is over.
Completed == IF pc = "finished" THEN Len(batch) ELSE bi - 1

(***************************************************************************)
(* C11: in a sequence of calls of parse_fasta_stats, a call that meets no  *)
(* I/O error returns what it returns when it is the only call, whatever    *)
(* the calls before it were, and two records of the same unchanged file    *)
(* are identical.                                                          *)
(***************************************************************************)
C11_DeterministicStateless ==
    batch # <<>> =>
        /\ (pc = "done" /\ ~ioError) =>
               result = AloneResult(script, path, exists, lines)
        /\ \A i \in 1..Len(all_stats) :
               all_stats[i] =
                   AloneResult(script, all_stats[i].assembly_file, TRUE,
                               FileAt(all_stats[i].assembly_file).lines)
        /\ \A i, j \in 1..Len(all_stats) :
               all_stats[i].assembly_file = all_stats[j].assembly_file
                   => all_stats[i] = all_stats[j]

\* The third call is on the file of the first one, after a call on another
\* file with other contents, and has returned the record of the first.
C11_Witness ==
    /\ Len(batch) = 3
    /\ bi = 3
    /\ Returned
    /\ batch[1].path = path
    /\ batch[2].path # path
    /\ batch[2].lines # lines
    /\ Len(all_stats) = 2
    /\ all_stats[1] = result
    /\ all_stats[2] # result

(***************************************************************************)
(* C17: a file without statistics is warned about and skipped, a file with *)
(* statistics gets its row, the files after it are still processed, and    *)
(* the batch always reaches the end of its list.                           *)
(***************************************************************************)
\* The table and the warnings after each loop body: the rows are rows of
\* the files gone through, in their order, and every file that holds no
\* contig or does not exist has its warning.
BatchTable ==
    batch # <<>> =>
        /\ bi \in 1..Len(batch)
        /\ path = batch[bi].path
        /\ pc = "finished" => bi = Len(batch)
        /\ Len(all_stats) + Len(warned) = Completed
        /\ pc \in {"start", "finished"} =>
               /\ LET Among(rows) == IsSubseq(all_stats, rows)
                  IN  Bind(ExpectedRows(script, SubSeq(batch, 1, Completed)), Among)
               /\ LET Within(ws) == IsSubseq(ws, warned)
                  IN  Bind(ExpectedWarned(script, SubSeq(batch, 1, Completed)),
                           Within)

\* The loop body appends the dict returned when there is one and warns
\* otherwise, then goes to the next file or ends; no other step changes
\* the table or the warnings.
RowIffStatistics ==
    IF batch # <<>> /\ pc = "done"
    THEN /\ IF result.kind = "stats"
            THEN all_stats' = Append(all_stats, result) /\ warned' = warned
            ELSE all_stats' = all_stats /\ warned' = Append(warned, path)
         /\ IF bi < Len(batch)
            THEN bi' = bi + 1 /\ pc' = "start" /\ path' = batch[bi + 1].path
            ELSE pc' = "finished"
    ELSE all_stats' = all_stats /\ warned' = warned /\ bi' = bi

C17_BatchSkipsAndRunsToEnd ==
    /\ []BatchTable
    /\ [][RowIffStatistics]_vars
    /\ (batch # <<>>) ~> (pc = "finished")

\* The batch is over: its first file was missing and warned about, and the
\* two files after it have their rows.
C17_Witness ==
    /\ pc = "finished"
    /\ Len(batch) = 3
    /\ ~batch[1].exists
    /\ warned = <<batch[1].path>>
    /\ Len(all_stats) = 2
    /\ all_stats[1].assembly_file = batch[2].path
    /\ all_stats[2].assembly_file = batch[3].path

(***************************************************************************)
(* C20: the record holds the path it was given in assembly_file, and the   *)
(* records of two files with the same content at different paths agree in  *)
(* every other field.                                                      *)
(***************************************************************************)
C20_PathOnlyInAssemblyFile ==
    /\ Returned => result.assembly_file = path
    /\ \A i \in 1..Len(all_stats) :
           all_stats[i].assembly_file \in {batch[k].path : k \in 1..Len(batch)}
    /\ \A i, j \in 1..Len(all_stats) :
           FileAt(all_stats[i].assembly_file).lines
               = FileAt(all_stats[j].assembly_file).lines
           => \A f \in DOMAIN all_stats[i] \ {"assembly_file"} :
                  all_stats[i][f] = all_stats[j][f]

\* The table holds the rows of two files with the same content at
\* different paths.
C20_Witness ==
    /\ Len(all_stats) = 2
    /\ all_stats[1].assembly_file = "kmer/final.contigs.fa"
    /\ all_stats[2].assembly_file = "random/final.contigs.fa"
    /\ all_stats[1].total_length = all_stats[2].total_length
    /\ all_stats[1] # all_stats[2]

(***************************************************************************)
(* Reference definitions for the calls of calculate_nx.                    *)
(***************************************************************************)
PercentageOf(n) == CHOOSE p \in Percentages : p.name = n

Called == DOMAIN nxOut \cap {p.name : p \in Percentages}

\* x is a percentage above 0 and at most 100.
ValidPercentage(p) == p.num > 0 /\ p.num <= p.den

\* x% of the total is more than the total.
TargetExceedsTotal(p, total) == p.num * total > p.den * total

(***************************************************************************)
(* C15: a call of calculate_nx with a percentage that is not above 0 and   *)
(* at most 100 raises an error and returns no value.                       *)
(***************************************************************************)
C15_InvalidPercentageFails ==
    \A n \in Called :
        ~ValidPercentage(PercentageOf(n)) => nxOut[n].kind = "raised"

(***************************************************************************)
(* C16: calculate_nx returns 0, and raises nothing, exactly when the       *)
(* target is more than the total, which is when the walk ends without      *)
(* reaching it; otherwise it returns one of the lengths, as the two loops  *)
(* of assess_quality.py always do.                                         *)
(***************************************************************************)
C16_FallbackZeroOnlyBeyondTotal ==
    /\ \A n \in Called :
           /\ nxOut[n].kind = "returned"
           /\ nxOut[n].value = 0
                  <=> TargetExceedsTotal(PercentageOf(n), RefTotal(contigs))
           /\ nxOut[n].value # 0 => nxOut[n].value \in Values(contigs)
    /\ \A f \in DOMAIN nxOut \cap {"n50", "n90"} :
           nxOut[f].value \in Values(contigs)

\* On a list of several lengths, 150% has given 0 and 100% the shortest
\* length.
C16_Witness ==
    /\ Len(contigs) >= 3
    /\ {"1.0", "1.5"} \subseteq DOMAIN nxOut
    /\ nxOut["1.5"].value = 0
    /\ nxOut["1.0"].value = contigs[Len(contigs)]
    /\ contigs[Len(contigs)] < contigs[1]

(***************************************************************************)
(* C18: no call of calculate_nx and no other statistic changes the sorted  *)
(* list, and each value computed, in whatever order, is the value of the   *)
(* record parse_fasta_stats returns for the file.                          *)
(***************************************************************************)
NxFieldOf(n) ==
    CASE n = "0.5"  -> "n50"
      [] n = "0.75" -> "n75"
      [] n = "0.9"  -> "n90"
      [] OTHER      -> n

ComputedAsReturned ==
    pc = "stats" =>
        \A n \in DOMAIN nxOut :
            NxFieldOf(n) \in StatsFields(script) =>
                nxOut[n].value
                    = AloneResult(script, path, exists, lines)[NxFieldOf(n)]

C18_NxLeavesListUnchanged ==
    /\ []ComputedAsReturned
    /\ [][contigs' = contigs]_vars

\* N50 and the count of contigs of 1 kb and more have both been computed,
\* on a list where the walk for N50 stops before the end.
C18_Witness ==
    /\ pc = "stats"
    /\ {"0.5", "contigs_1kb+"} \subseteq DOMAIN nxOut
    /\ nxOut["0.5"].value > contigs[Len(contigs)]
    /\ nxOut["contigs_1kb+"].value >= 2
    /\ nxOut["contigs_1kb+"].value < Len(contigs)

(***************************************************************************)
(* The list 100, 90, 80, 70, 60 of the N50 example: total 400, half of it  *)
(* 200, running sums 100, 190, 270.                                        *)
(***************************************************************************)
IsExample400 == Returned /\ Len(contigs) = 5 /\ Values(contigs) = {100, 90, 80, 70, 60}

\* C21 as stated: for contig lengths 100, 90, 80, 70, 60 (total 400) the
\* reported n50 is 90.
C21_N50Is90 == IsExample400 => result.n50 = 90

\* C21 as amended: for contig lengths 100, 90, 80, 70, 60 (total 400) the
\* reported n50 is 80, the first length at which the running sum (270)
\* reaches 200; the sum 190 at length 90 does not.
C21_N50Is80 ==
    IsExample400 =>
        /\ result.total_length = 400
        /\ result.n50 = 80
        /\ RefSumGE(contigs, 90) < 200
        /\ RefSumGE(contigs, 80) >= 200

C21_Witness ==
    /\ IsExample400
    /\ script = "assess_quality"
    /\ result.n50 = 80

(***************************************************************************)
(* C22: on the same input the three copies of parse_fasta_stats return     *)
(* None on exactly the same inputs and otherwise equal values for every    *)
(* metric they share: total_length, n_contigs, n50, n90, max_contig,       *)
(* min_contig, contigs_1kb+ and contigs_10kb+.                             *)
(***************************************************************************)
SharedMetrics ==
    {"total_length", "n_contigs", "n50", "n90", "max_contig", "min_contig",
     "contigs_1kb+", "contigs_10kb+"}

C22_CopiesAgree ==
    \A i, j \in 1..Len(all_stats) :
        /\ all_stats[i] # Pending
        /\ (all_stats[i] = None) <=> (all_stats[j] = None)
        /\ (all_stats[i] # None /\ all_stats[j] # None) =>
               /\ SharedMetrics \subseteq DOMAIN all_stats[i]
               /\ \A f \in SharedMetrics : all_stats[i][f] = all_stats[j][f]

\* The three copies have returned statistics of a file with contigs of
\* 1 kb and more, where n50 and n90 differ.
C22_Witness ==
    /\ pc = "compared"
    /\ Len(all_stats) = 3
    /\ all_stats[1] # None
    /\ all_stats[3].n50 > all_stats[3].n90
    /\ all_stats[3]["contigs_1kb+"] >= 2
    /\ DOMAIN all_stats[1] # DOMAIN all_stats[3]

\* The three copies have returned None for a file that exists.
C22_WitnessNone ==
    /\ pc = "compared"
    /\ exists
    /\ lines # <<>>
    /\ all_stats = <<None, None, None>>

(***************************************************************************)
(* C23: in every returned statistics record n50, n75 and n90 are each the  *)
(* length of some contig of the input, so min_contig <= n90 and            *)
(* n50 <= max_contig and none of them is 0: the return-0 fallback of the   *)
(* walk is not taken for the fractions 0.5, 0.75 and 0.9 on a non-empty    *)
(* list.                                                                   *)
(***************************************************************************)
NxFields == {"n50", "n75", "n90"}

C23_NxIsAContigLength ==
    Returned =>
        /\ {"n50", "n90"} \subseteq DOMAIN result
        /\ \A f \in NxFields \cap DOMAIN result :
               /\ result[f] \in Values(contigs)
               /\ result[f] # 0
        /\ result.min_contig <= result.n90
        /\ result.n50 <= result.max_contig

\* The walk for n90 goes to the last contig of a list of several contigs,
\* in the copy that reports n75.
C23_Witness ==
    /\ Returned
    /\ script = "assess_all_conditions"
    /\ Len(contigs) >= 3
    /\ result.n90 = result.min_contig
    /\ result.n75 < result.n50
    /\ result.n50 < result.max_contig

(***************************************************************************)
(* C24: create_random_groups keeps the k-mer group structure for every     *)
(* seed: the random grouping has as many groups as the k-mer grouping, its *)
(* i-th group has the size of the i-th k-mer group, and its groups taken   *)
(* together are a permutation of the samples of the k-mer groups (with     *)
(* distinct input samples, each sample is in exactly one random group).    *)
(***************************************************************************)
\* How often x occurs in the sequence s.
Occurrences(s, x) == Cardinality({i \in 1..Len(s) : s[i] = x})

IsPermutationOf(a, b) ==
    /\ Len(a) = Len(b)
    /\ \A i \in 1..Len(a) : Occurrences(a, a[i]) = Occurrences(b, a[i])

KmerSamples(groups) == Flatten([i \in 1..Len(groups) |-> groups[i].samples])

Distinct(s) == \A i, j \in 1..Len(s) : s[i] = s[j] => i = j

KeepsStructure(kmer, random) ==
    /\ Len(random) = Len(kmer)
    /\ \A i \in 1..Len(kmer) :
           /\ Len(random[i].samples) = Len(kmer[i].samples)
           /\ random[i].size = Len(random[i].samples)
    /\ IsPermutationOf(KmerSamples(random), KmerSamples(kmer))
    /\ Distinct(KmerSamples(kmer)) =>
           \A x \in {KmerSamples(kmer)[i] : i \in 1..Len(KmerSamples(kmer))} :
               Cardinality({i \in 1..Len(random) :
                              Occurrences(random[i].samples, x) = 1}) = 1

C24_RandomKeepsStructure ==
    create_random_groups # NotCalled =>
        /\ \A k \in 1..Len(create_random_groups.written) :
               /\ KeepsStructure(create_random_groups.groups,
                                 create_random_groups.written[k].groups)
               /\ create_random_groups.written[k].total_groups =
                      Len(create_random_groups.groups)
        /\ create_random_groups.pc = "returned" =>
               Len(create_random_groups.written) = Len(create_random_groups.seeds)

\* Two seeds have given two different groupings of two distinct samples in
\* groups of size 1, the second one not in the k-mer order.
C24_Witness ==
    /\ create_random_groups # NotCalled
    /\ create_random_groups.pc = "returned"
    /\ create_random_groups.group_sizes = <<1, 1>>
    /\ Distinct(create_random_groups.all_samples)
    /\ Len(create_random_groups.written) = 2
    /\ create_random_groups.written[1].groups # create_random_groups.written[2].groups
    /\ create_random_groups.written[2].groups[1].samples
           # create_random_groups.groups[1].samples

(***************************************************************************)
(* C25: for any sample list and any group_size >= 1,                       *)
(* create_grouping_strategy and create_focused_group_strategy place each   *)
(* sample exactly once in either a group or individual_samples; every      *)
(* group has at least 2 and at most group_size samples; and the summary    *)
(* satisfies grouped_samples + individual_samples = total_samples.         *)
(***************************************************************************)
Placed(r) == KmerSamples(r.groups) \o r.individual_samples

PlacesEachOnce(f, r) ==
    /\ IsPermutationOf(Placed(r), f.samples)
    /\ \A x \in {f.samples[k] : k \in 1..Len(f.samples)} : Occurrences(Placed(r), x) = 1
    /\ \A k \in 1..Len(r.groups) :
           /\ Len(r.groups[k].samples) >= 2
           /\ Len(r.groups[k].samples) <= f.group_size
    /\ r.summary.grouped_samples + r.summary.individual_samples = r.summary.total_samples
    /\ r.summary.total_samples = Len(f.samples)
    /\ r.summary.individual_samples = Len(r.individual_samples)
    /\ r.summary.grouped_samples = Len(KmerSamples(r.groups))

C25_EachSampleOnce ==
    create_grouping_strategy # NotCalled =>
        /\ \A k \in 1..Len(create_grouping_strategy.written) :
               PlacesEachOnce(create_grouping_strategy, create_grouping_strategy.written[k])
        /\ create_grouping_strategy.pc = "returned" =>
               Len(create_grouping_strategy.written) = Len(create_grouping_strategy.seeds)

\* Three samples in groups of 2: one group and one sample left over, which
\* is not the last sample of the input.
C25_Witness ==
    /\ create_grouping_strategy # NotCalled
    /\ create_grouping_strategy.pc = "returned"
    /\ create_grouping_strategy.function = "create_focused_group_strategy"
    /\ create_grouping_strategy.group_size = 2
    /\ Len(create_grouping_strategy.written) = 1
    /\ Len(create_grouping_strategy.written[1].groups) = 1
    /\ create_grouping_strategy.written[1].individual_samples = << SampleNames[1] >>

(***************************************************************************)
(* C26: get_assembly_stats of assess_quality treats its three file         *)
(* patterns as standard name, alternative naming and fallback: every       *)
(* assembly file under the directory is processed at most once and         *)
(* contributes at most one row to the returned table.                      *)
(***************************************************************************)
RowsOf(p) == Cardinality({k \in 1..Len(all_stats) : all_stats[k].assembly_file = p})

TimesProcessed(p) == Cardinality({k \in 1..Len(batch) : batch[k].path = p})

C26_EachFileAtMostOnce ==
    (get_assembly_stats # NotCalled /\ pc = "finished") =>
        \A k \in 1..Len(get_assembly_stats.listing) :
            /\ TimesProcessed(get_assembly_stats.listing[k].path) <= 1
            /\ RowsOf(get_assembly_stats.listing[k].path) <= 1

(***************************************************************************)
(* C27: generate_comprehensive_report always returns exactly one of        *)
(* STRONGLY PROMISING, PROMISING, MIXED, NOT PROMISING, ANALYSIS_FAILED:   *)
(* ANALYSIS_FAILED exactly when the k-mer-vs-random comparison is absent   *)
(* or has no metric; otherwise at least 4 metrics better than the best     *)
(* random gives STRONGLY PROMISING; else at least 4 better than the random *)
(* average and none worse than the worst random gives PROMISING; else at   *)
(* least 3 better than average and at most 1 worse than worst gives MIXED; *)
(* anything else gives NOT PROMISING.  The counts are taken from the rows  *)
(* of the table.                                                           *)
(***************************************************************************)
Decisions == {"STRONGLY PROMISING", "PROMISING", "MIXED", "NOT PROMISING", "ANALYSIS_FAILED"}

\* The k-mer value of the column m, with one k-mer row.
KmerValue(df, m) == df.kmer[1][m]

RandomValues(df, m) == {df.random[k][m] : k \in 1..Len(df.random)}

RefBeatsBest(df) ==
    Cardinality({m \in df.columns : \A v \in RandomValues(df, m) : KmerValue(df, m) > v})

RefWorseThanWorst(df) ==
    Cardinality({m \in df.columns : \A v \in RandomValues(df, m) : KmerValue(df, m) < v})

RefBeatsAvg(df) ==
    Cardinality({m \in df.columns :
                    KmerValue(df, m) * Len(df.random) > RefTotal(Column(df.random, m))})

ComparisonAbsent(df) == df.kmer = <<>> \/ df.random = <<>> \/ df.columns = {}

C27_DecisionRules ==
    (generate_comprehensive_report # NotCalled
        /\ generate_comprehensive_report.pc = "returned") =>
        LET df == generate_comprehensive_report.df
            decision == generate_comprehensive_report.decision
        IN  /\ decision \in Decisions
            /\ decision = "ANALYSIS_FAILED" <=> ComparisonAbsent(df)
            /\ ~ComparisonAbsent(df) =>
                   /\ decision = "STRONGLY PROMISING" <=> RefBeatsBest(df) >= 4
                   /\ decision = "PROMISING" <=>
                          /\ RefBeatsBest(df) < 4
                          /\ RefBeatsAvg(df) >= 4 /\ RefWorseThanWorst(df) = 0
                   /\ decision = "MIXED" <=>
                          /\ RefBeatsBest(df) < 4
                          /\ ~(RefBeatsAvg(df) >= 4 /\ RefWorseThanWorst(df) = 0)
                          /\ RefBeatsAvg(df) >= 3 /\ RefWorseThanWorst(df) <= 1

\* Four metrics better than the random average, fewer than four better
\* than the best random, and one worse than the worst random: MIXED.
C27_Witness ==
    /\ generate_comprehensive_report # NotCalled
    /\ generate_comprehensive_report.pc = "returned"
    /\ generate_comprehensive_report.decision = "MIXED"
    /\ CountFlag(generate_comprehensive_report.kmer_vs_random, "kmer_better_than_avg") >= 4
    /\ CountFlag(generate_comprehensive_report.kmer_vs_random, "kmer_worse_than_worst") = 1

(***************************************************************************)
(* What the Stage 1 jobs of a strategy write and which samples they        *)
(* assemble: MEGAHIT run with -o dir writes dir/final.contigs.fa.          *)
(***************************************************************************)
Stage1Outputs(f) ==
    UNION { IF f.stage1_commands[c].type = "array"
            THEN {<<"individual", f.stage1_commands[c].sample_list[k], "final.contigs.fa">> :
                    k \in 1..f.stage1_commands[c].array_size}
            ELSE {Append(f.stage1_commands[c].o, "final.contigs.fa")} :
            c \in 1..Len(f.stage1_commands) }

Stage1Samples(f) ==
    UNION { IF f.stage1_commands[c].type = "array"
            THEN {f.stage1_commands[c].sample_list[k] : k \in 1..f.stage1_commands[c].array_size}
            ELSE {f.stage1_commands[c].reads[k] : k \in 1..Len(f.stage1_commands[c].reads)} :
            c \in 1..Len(f.stage1_commands) }

\* C28: every input file of a strategy's Stage 2 concatenation command is
\* the output of a Stage 1 assembly that was generated for that strategy
\* (for the individual strategy: only samples written to the array job's
\* sample list).
C28_Stage2InputsProduced ==
    (process_strategy # NotCalled /\ process_strategy.pc = "done"
        /\ process_strategy.stage2_command # None) =>
        \A k \in 1..Len(process_strategy.stage2_command.input_files) :
            process_strategy.stage2_command.input_files[k] \in Stage1Outputs(process_strategy)

\* C29: each sample named in the strategy (in a group or in
\* individual_samples) whose R1 and R2 files exist is assembled by some
\* Stage 1 command, including the leftover individual_samples of a grouped
\* strategy.
C29_EverySampleAssembled ==
    (process_strategy # NotCalled /\ process_strategy.pc \in {"stage2", "done"}) =>
        \A s \in SamplesNamed(process_strategy.strategy) :
            s \in process_strategy.with_reads => s \in Stage1Samples(process_strategy)

(***************************************************************************)
(* C30: in generate_staged_assembly_commands every generated command is    *)
(* written to exactly one SLURM script: for any set of random-seed         *)
(* conditions, each Stage 1 MEGAHIT command whose contigs file is an input *)
(* of a Stage 2 concatenation appears in one of the MEGAHIT scripts, and   *)
(* each script's array range 1..N covers its N commands exactly once.      *)
(***************************************************************************)
\* The array tasks that run the command c.
TasksOf(f, c) ==
    {<<s, i>> \in (1..Len(f.scripts)) \X (1..Len(f.all_commands)) :
        /\ i <= f.scripts[s].array_size
        /\ i <= Len(f.scripts[s].COMMANDS)
        /\ f.scripts[s].COMMANDS[i] = c}

C30_EveryCommandInOneScript ==
    (generate_staged_assembly_commands # NotCalled
        /\ generate_staged_assembly_commands.pc = "done") =>
        LET f == generate_staged_assembly_commands
        IN  /\ \A k \in 1..Len(f.all_commands) :
                   Cardinality(TasksOf(f, f.all_commands[k])) = 1
            /\ \A s \in 1..Len(f.scripts) :
                   f.scripts[s].array_size = Len(f.scripts[s].COMMANDS)

====
